---- MODULE Spec2Model ----
(***************************************************************************)
(* Model of the answer pipeline of the chatbot: the get_answer functions   *)
(* of rag_agent, rag_agent_robust, rag_agent_cloud, rag_agent_safe and     *)
(* rag_agent_fallback, the keyword search of the text variants, and the    *)
(* cached initializers of the vector-database variants.                    *)
(*                                                                         *)
(* Strings are sequences of atoms.  An atom is one character ("a", " ")    *)
(* or a fixed run of characters of a message literal, written out as one   *)
(* TLA+ string.  The pictographs of the source are written in ASCII:       *)
(* "[x]" is the cross mark, "[bot]" the robot face, "[doc]" the page,      *)
(* "[books]" the books, "[clip]" the clipboard, "[bulb]" the light bulb.   *)
(***************************************************************************)
EXTENDS Naturals, Sequences, FiniteSets

VARIABLES
    variant,      \* which module serves get_answer in this process
    corpus,       \* the documents of the data directory / vector store
    apiKey,       \* GOOGLE_API_KEY is available
    backend,      \* [det, gen, search]: outcomes free, or fixed per model when det
    agentCache,   \* memoized result of initialize_agent ("unset" before)
    agentModel,   \* agent.model: the model the shared agent runs on
    pc,           \* per caller: position in get_answer
    q,            \* per caller: question of the running call
    attempt,      \* per caller: loop index of the running call
    cur,          \* per caller: current_model selected for the attempt
    log,          \* per caller: what the running/last call did, in order
    ret,          \* per caller: value returned by the last call
    prev,         \* history: question and result of the call before
    callers,      \* the callers that may run get_answer
    cache,        \* st.cache_resource entry of initialize_vector_db
    lock,         \* holder of the entry's compute lock (0: free)
    spc,          \* per session: position in the cached initializer call
    flag,         \* per session: st.session_state.documents_ingested
    ingests,      \* history: number of ingest_documents executions
    sq,           \* search scenario: the query
    sdocs,        \* search scenario: the document list
    sres,         \* search scenario: result of the last simple_search
    sold,         \* search scenario: documents and result before an addition
    sadd,         \* search scenario: the addition made (or none)
    sctx,         \* search scenario: the context get_answer built from the result
    embedder,     \* st.cache_resource entry of initialize_embedder
    status,       \* per session: what get_system_status returned last
    app,          \* which Streamlit script serves the sessions
    session,      \* per session: st.session_state and the script run under way
    ingest        \* ingest_documents: the data directory and the progress of a call

callVars == <<pc, q, attempt, cur, log, ret, prev>>
envVars == <<variant, corpus, apiKey, backend, callers>>
agentVars == <<agentCache, agentModel>>
initVars == <<cache, lock, spc, flag, ingests>>
searchVars == <<sq, sdocs, sres, sold, sadd, sctx>>
statusVars == <<embedder, status>>
appVars == <<app, session, ingest>>
vars == <<envVars, agentVars, callVars, initVars, searchVars, statusVars, appVars>>

(***************************************************************************)
(* Strings                                                                 *)
(***************************************************************************)
Min(a, b) == IF a < b THEN a ELSE b

IsSpace(c) == c \in {" ", "\n"}

\* str.lower(), atom by atom
LowerAtom(c) ==
    CASE c = "A" -> "a"
      [] c = "B" -> "b"
      [] c = "Z" -> "z"
      [] c = "RESOURCE_EXHAUSTED" -> "resource_exhausted"
      [] c = "Quota" -> "quota"
      [] c = "Too Many Requests" -> "too many requests"
      [] OTHER -> c

Lower(s) == [i \in DOMAIN s |-> LowerAtom(s[i])]

RECURSIVE LStrip(_)
LStrip(s) == IF s # <<>> /\ IsSpace(Head(s)) THEN LStrip(Tail(s)) ELSE s

RECURSIVE RStrip(_)
RStrip(s) ==
    IF s # <<>> /\ IsSpace(s[Len(s)]) THEN RStrip(SubSeq(s, 1, Len(s) - 1)) ELSE s

\* str.strip()
Strip(s) == RStrip(LStrip(s))

\* s[i:j] of Python for 0 <= i: characters i .. j-1, clipped to the string
Slice(s, i, j) == SubSeq(s, i + 1, Min(j, Len(s)))

\* s.startswith(p)
StartsWith(s, p) == Len(p) <= Len(s) /\ SubSeq(s, 1, Len(p)) = p

\* s occurs in t at 0-based offset i
OccursAt(s, t, i) == i + Len(s) <= Len(t) /\ SubSeq(t, i + 1, i + Len(s)) = s

\* `s in t` of Python
Contains(t, s) == \E i \in 0..Len(t) : OccursAt(s, t, i)

\* t.count(s) for non-empty s: non-overlapping occurrences, scanned from the left
RECURSIVE CountFrom(_, _, _)
CountFrom(t, s, i) ==
    LET found == {j \in i..Len(t) : OccursAt(s, t, j)}
    IN  IF found = {} THEN 0
        ELSE 1 + CountFrom(t, s, (CHOOSE j \in found : \A k \in found : j <= k) + Len(s))

Count(t, s) == IF s = <<>> THEN Len(t) + 1 ELSE CountFrom(t, s, 0)

\* str.split(): the maximal runs of non-space characters, in order
RECURSIVE SplitFrom(_, _, _)
SplitFrom(s, i, word) ==
    IF i > Len(s) THEN (IF word = <<>> THEN <<>> ELSE <<word>>)
    ELSE IF IsSpace(s[i])
         THEN (IF word = <<>> THEN <<>> ELSE <<word>>) \o SplitFrom(s, i + 1, <<>>)
         ELSE SplitFrom(s, i + 1, Append(word, s[i]))

Split(s) == SplitFrom(s, 1, <<>>)

\* "sep".join(parts)
RECURSIVE Join(_, _)
Join(sep, parts) ==
    IF parts = <<>> THEN <<>>
    ELSE IF Len(parts) = 1 THEN parts[1]
    ELSE parts[1] \o sep \o Join(sep, Tail(parts))

\* content[:n] + "..." when the content is longer than n
Ellipsis == <<"...">>
Truncate(content, n) ==
    IF Len(content) > n THEN SubSeq(content, 1, n) \o Ellipsis ELSE content

\* the decimal text of a small number, as one atom
Digits == <<"0", "1", "2", "3", "4", "5", "6", "7", "8", "9">>
Str(n) == IF n < 10 THEN <<Digits[n + 1]>> ELSE <<"many">>

\* a string of n copies of the atom c
Rep(c, n) == [i \in 1..n |-> c]

(***************************************************************************)
(* Program constants and message literals                                  *)
(***************************************************************************)
\* max_retries with one more retry
max_retries_More == 2 + 1

max_retries == 2          \* default of get_answer(question, max_retries=2)
limit == 3                \* default of search_documents_only(question, limit=3)
QuotaBackoff == 2         \* time.sleep(2) after a quota error
ErrorBackoff == 1         \* time.sleep(1) after another error (robust)
RobustMaxContent == 400   \* truncation of a listed document (robust)
CloudMaxContent == 500    \* truncation of a listed document (cloud)

\* the model tiers of the agent variants, in priority order
Models == <<"gemini-1.5-flash", "gemini-1.5-pro">>
\* the model tiers of rag_agent_safe.get_ai_response
models_to_try == <<"gemini-1.5-flash", "gemini-1.5-pro", "gemini-pro">>
AllModels == {models_to_try[i] : i \in DOMAIN models_to_try}

ValidationMessage == <<"[x]", " Please ask a valid question.">>

\* the marker lists the error message is searched for, per module
RobustQuotaErrors ==
    {<<"quota">>, <<"rate limit">>, <<"resource_exhausted">>,
     <<"too many requests">>, <<"limit exceeded">>}
CloudQuotaErrors ==
    {<<"quota">>, <<"rate limit">>, <<"resource_exhausted">>, <<"too many requests">>}
SafeQuotaErrors == {<<"quota">>, <<"rate limit">>, <<"resource_exhausted">>}
LocalQuotaErrors == {<<"429">>, <<"quota">>, <<"resource_exhausted">>, <<"rate limit">>}

\* any(keyword in str(error).lower() for keyword in markers)
IsQuotaError(msg, markers) == \E k \in markers : Contains(Lower(msg), k)

(***************************************************************************)
(* Outcomes of the external calls                                          *)
(***************************************************************************)
\* agent.run / generate_content: a response object with content (possibly
\* empty), a bare string, no response, or an exception with a message
Content(t) == [kind |-> "content", text |-> t]
PlainStr(t) == [kind |-> "str", text |-> t]
NoResponse == [kind |-> "none", text |-> <<>>]
Raise(msg) == [kind |-> "raise", text |-> msg]

GenTexts == {<<"Use Settings > Security.">>, <<" ", "Billing is monthly.", "\n">>}
ErrMsgs == {<<"429", " ", "RESOURCE_EXHAUSTED">>, <<"boom">>}
CoreOutcomes ==
    {Content(t) : t \in GenTexts \cup {<<>>}} \cup {NoResponse}
        \cup {PlainStr(<<"plain reply">>)} \cup {Raise(m) : m \in ErrMsgs}

\* further outcomes, drawn when the backend is wide: a text that opens with
\* the cross mark, and errors of HTTP status 429
MoreGenTexts == {<<"[x]", " marks a rejected request.">>}
MoreErrMsgs == {<<"429", " ", "Too Many Requests">>, <<"429">>}
GenOutcomes ==
    CoreOutcomes \cup {Content(t) : t \in MoreGenTexts}
        \cup {Raise(m) : m \in MoreErrMsgs}

\* the search of the store returns (ok), raises, or returns results that the
\* formatting loop cannot read (format)
SearchError == <<"search error">>
FormatError == <<"object has no attribute 'get'">>
SearchOutcomes == {"ok", "raise", "format"}

\* a backend whose outcomes are not fixed, and the fixed ones
AnyBackend ==
    [det |-> FALSE, wide |-> FALSE, gen |-> [m \in AllModels |-> NoResponse],
     search |-> "ok"]
WideBackend == [AnyBackend EXCEPT !.wide = TRUE]
FixedBackends ==
    {[det |-> TRUE, wide |-> FALSE, gen |-> g, search |-> s] :
        g \in [AllModels -> CoreOutcomes], s \in SearchOutcomes}

GenAllowed(m, o) ==
    /\ backend.det => backend.gen[m] = o
    /\ backend.wide \/ o \in CoreOutcomes
SearchAllowed(s) == backend.det => backend.search = s

(***************************************************************************)
(* Events of a call, in the order they happen                              *)
(***************************************************************************)
Ev(type, model, sel, out, secs) ==
    [type |-> type, model |-> model, sel |-> sel, out |-> out, secs |-> secs]
InitEv == Ev("init", "", "", NoResponse, 0)
LoadEv == Ev("load", "", "", NoResponse, 0)
SearchEv(s) == Ev("search", s, "", NoResponse, 0)
\* a generation call that ran on `model` while the call had selected `sel`
GenEv(model, sel, out) == Ev("gen", model, sel, out, 0)
SleepEv(secs) == Ev("sleep", "", "", NoResponse, secs)
\* get_ai_response returned the string text
AiEv(text) == Ev("ai", "", "", PlainStr(text), 0)

(***************************************************************************)
(* Documents                                                               *)
(***************************************************************************)
Doc(filename, content) == [filename |-> filename, content |-> content]

MaxLongDoc == 510   \* length of the long document of the corpus

DocA == Doc(<<"a", "a", "a", ".", "t", "x", "t">>, <<"A", "a", "a", " ", "b", "b", "b">>)
DocB == Doc(<<"f", ".", "t", "x", "t">>, <<"b", "b", "b", " ", "b", "b", "b">>)
DocC == Doc(<<"g", ".", "t", "x", "t">>, <<"c", "c", "c">>)
DocLong == Doc(<<"h", ".", "t", "x", "t">>, <<"a", "a", "a", " ">> \o Rep("x", MaxLongDoc))

Corpora == {<<>>, <<DocC, DocA>>, <<DocA, DocB, DocLong, DocC>>}

Questions ==
    {<<>>, <<" ", "\n">>, <<"a", "a", "a">>, <<" ", "B", "b", "b", " ">>, <<"z", "z", "z">>}

\* KbSearch that ignores num_documents
KbSearch_Unlimited(question, n) == corpus

\* knowledge_base.search(query, num_documents=n): the n best documents of the
\* store, best first (the store ranks the documents in the order it holds them)
KbSearch(question, n) == SubSeq(corpus, 1, Min(n, Len(corpus)))

(***************************************************************************)
(* rag_agent_robust: search_documents_only                                 *)
(***************************************************************************)
RobustKbUnavailable ==
    <<"[x]", " Knowledge base not available. Please check system initialization.">>
RobustNoDocs(question) ==
    <<"[x]", " No relevant documents found for: '">> \o question
        \o <<"'", "\n\n", "Try rephrasing your question or asking about a different topic.">>
RobustFoundHeader(n) ==
    <<"[doc]", " **Found ">> \o Str(n) \o <<" relevant document(s):**", "\n">>
RobustResult(i, doc) ==
    <<"**", "[clip]", " Result ">> \o Str(i) \o <<":**", "\n">>
        \o Truncate(doc.content, RobustMaxContent) \o <<"\n">>
RobustListing(docs) ==
    Join(<<"\n">>, <<RobustFoundHeader(Len(docs))>>
                      \o [i \in 1..Len(docs) |-> RobustResult(i, docs[i])])

\* RobustSearchFailed without the try: the exception leaves the function
RobustSearchFailed_Raises(msg) == <<"<exception>">> \o msg

RobustSearchFailed(msg) ==
    <<"[x]", " Search failed: ">> \o msg
        \o <<"\n\n", "Please try again or contact support if the issue persists.">>

\* search_documents_only(question): kbReady is what the cached
\* initialize_agent yields, s the outcome of the knowledge-base search
RobustSearchDocumentsOnly(question, kbReady, s) ==
    IF ~kbReady THEN RobustKbUnavailable
    ELSE IF s = "raise" THEN RobustSearchFailed(SearchError)
    ELSE IF KbSearch(question, limit) = <<>> THEN RobustNoDocs(question)
    ELSE IF s = "format" THEN RobustSearchFailed(FormatError)
    ELSE RobustListing(KbSearch(question, limit))

(***************************************************************************)
(* rag_agent_cloud: search_documents_only                                  *)
(***************************************************************************)
CloudNoDocs == <<"[x]", " No relevant documents found for your question.">>
CloudSearchFailed(msg) == <<"[x]", " Search failed: ">> \o msg
CloudResult(i, doc) ==
    <<"**Result ">> \o Str(i) \o <<":**", "\n">>
        \o Truncate(doc.content, CloudMaxContent) \o <<"\n">>
CloudListing(docs) ==
    Join(<<"\n">>, <<(<<"[doc]", " **Found relevant information:**", "\n">>)>>
                      \o [i \in 1..Len(docs) |-> CloudResult(i, docs[i])])

CloudSearchDocumentsOnly(question, s) ==
    IF s = "raise" THEN CloudSearchFailed(SearchError)
    ELSE IF KbSearch(question, limit) = <<>> THEN CloudNoDocs
    ELSE IF s = "format" THEN CloudSearchFailed(FormatError)
    ELSE CloudListing(KbSearch(question, limit))

(***************************************************************************)
(* The cached agent                                                        *)
(***************************************************************************)
NumCallers == 2     \* callers (sessions) that may call get_answer at once
Callers == 1..NumCallers

Pending == <<"<no result yet>">>
NoModel == ""

Unset == [state |-> "unset", models |-> <<>>]
NoAgent == [state |-> "none", models |-> <<>>]
Ready(ms) == [state |-> "ready", models |-> ms]

\* the modules that stop at import without the key: rag_agent raises
\* ValueError, rag_agent_cloud calls st.stop()
KeyRequired == {"cloud", "local"}

\* the import of the serving module went through, so get_answer exists
Imported == variant \in KeyRequired => apiKey

\* RobustInitResults without the test of the key
RobustInitResults_NoKeyCheck ==
    {NoAgent, Ready(Models), Ready(<<Models[1]>>), Ready(<<Models[2]>>)}

\* what rag_agent_robust.initialize_agent can return: (None, None, None)
\* without the key, the embedder, the vector database or any model, else the
\* agent with the models that could be constructed, flash before pro
RobustInitResults ==
    IF apiKey
    THEN {NoAgent, Ready(Models), Ready(<<Models[1]>>), Ready(<<Models[2]>>)}
    ELSE {NoAgent}

\* rag_agent_robust.initialize_agent when it runs (it is memoized): with the
\* key, the memoized initialize_embedder and, if the embedder is there, the
\* memoized initialize_vector_db run; eo and vo say whether the embedder and
\* the ChromaDb constructor work when they run; r is what is returned when
\* nothing was missing before the models
RobustInitializeAgent(r, eo, vo) ==
    LET e == IF ~apiKey \/ embedder # "unset" THEN embedder
             ELSE IF eo THEN "ok" ELSE "none"
        v == IF ~apiKey \/ e # "ok" \/ cache # "unset" THEN cache
             ELSE IF vo THEN "ok" ELSE "none"
    IN  [embedder |-> e, cache |-> v,
         agent |-> IF apiKey => (e = "ok" /\ v = "ok") THEN r ELSE NoAgent]

\* the history of the call before, kept when the backend is a fixed function
Remember(p) ==
    IF backend.det
    THEN [prev EXCEPT ![p] = [q |-> q[p], ret |-> ret[p], done |-> pc[p] = "done",
                              gens |-> Len(SelectSeq(log[p], LAMBDA e : e.type = "gen"))]]
    ELSE prev

\* IsBlank that tests the empty string only
IsBlank_EmptyOnly(question) == question = <<>>

\* not question or not question.strip()
IsBlank(question) == Strip(question) = <<>>

(***************************************************************************)
(* rag_agent_robust.get_answer                                             *)
(***************************************************************************)
RobustBusyNotice ==
    <<"[bot]", " AI services are currently busy. Here's what I found in the documents:",
      "\n\n">>
RobustUnavailableNotice ==
    <<"[bot]", " AI response unavailable. Here's what I found in the documents:", "\n\n">>
RobustSystemError(msg) ==
    <<"[x]", " AI system error: ">> \o msg
        \o <<"\n\n", "Trying document search instead:", "\n\n">>

\* QuotaWait without the sleep
QuotaWait_None == <<>>

\* time.sleep(2) before the next model is tried
QuotaWait == <<SleepEv(QuotaBackoff)>>

\* current_model = models[min(attempt, len(models) - 1)]
SelectModel(ms, a) == ms[Min(a, Len(ms) - 1) + 1]

\* `if attempt > 0: agent.model = current_model`: the model the agent runs on
\* after the selection of attempt a
AgentModelAfterSelect(old, selected, a) == IF a > 0 THEN selected ELSE old

\* ReRaised that keeps the first exception of the call
ReRaised_First(firstError, lastError) == firstError

\* the exception the last attempt re-raises: `raise model_error`
ReRaised(firstError, lastError) == lastError

\* an exception that leaves get_answer, as the caller would see it
Escaped(msg) == <<"<exception>">> \o msg
IsEscaped(r) == StartsWith(r, <<"<exception>">>)

\* RobustExcept without the outer try: the exception reaches the caller
RobustExcept_Propagates(msg, question, s) ==
    [next |-> "return", ret |-> Escaped(msg), ev |-> <<>>]

\* the outer `except Exception as e` of get_answer: the document search as
\* the last resort
RobustExcept(msg, question, s) ==
    [next |-> "return",
     ret |-> RobustSystemError(msg) \o RobustSearchDocumentsOnly(question, TRUE, s),
     ev |-> <<InitEv, SearchEv(s)>>]

\* the body of one loop iteration after agent.run returned or raised o:
\* what the call does next, the value it returns and the events it adds
RobustHandle(a, ms, o, question, s, firstError) ==
    IF o.kind \in {"content", "str"} /\ o.text # <<>>
    THEN [next |-> "return", ret |-> o.text, ev |-> <<>>]
    ELSE IF o.kind # "raise"
    THEN IF a < max_retries
         THEN [next |-> "continue", ret |-> Pending, ev |-> <<>>]
         ELSE [next |-> "return",
               ret |-> RobustUnavailableNotice
                         \o RobustSearchDocumentsOnly(question, TRUE, s),
               ev |-> <<InitEv, SearchEv(s)>>]
    ELSE IF IsQuotaError(o.text, RobustQuotaErrors)
    THEN IF a < Len(ms) - 1
         THEN [next |-> "continue", ret |-> Pending, ev |-> QuotaWait]
         ELSE [next |-> "return",
               ret |-> RobustBusyNotice \o RobustSearchDocumentsOnly(question, TRUE, s),
               ev |-> <<InitEv, SearchEv(s)>>]
    ELSE IF a < max_retries
         THEN [next |-> "continue", ret |-> Pending, ev |-> <<SleepEv(ErrorBackoff)>>]
         ELSE RobustExcept(ReRaised(firstError, o.text), question, s)

\* the message of the first exception of the call so far (o included)
FirstError(events, o) ==
    LET raised == SelectSeq(events, LAMBDA e : e.type = "gen" /\ e.out.kind = "raise")
    IN  IF raised # <<>> THEN raised[1].out.text ELSE o.text

\* get_answer up to the loop: validation, strip, initialize_agent (memoized)
RobustEnter(p, question) ==
    /\ variant = "robust" /\ p \in callers /\ pc[p] \in {"idle", "done"}
    /\ prev' = Remember(p)
    /\ q' = [q EXCEPT ![p] = Strip(question)]
    /\ attempt' = [attempt EXCEPT ![p] = 0]
    /\ cur' = [cur EXCEPT ![p] = NoModel]
    /\ IF IsBlank(question)
       THEN /\ ret' = [ret EXCEPT ![p] = ValidationMessage]
            /\ log' = [log EXCEPT ![p] = <<>>]
            /\ pc' = [pc EXCEPT ![p] = "done"]
            /\ UNCHANGED <<agentVars, embedder, cache, ingests>>
       ELSE \E r \in (IF agentCache.state = "unset" THEN RobustInitResults ELSE {NoAgent}),
               eo \in (IF agentCache.state = "unset" THEN BOOLEAN ELSE {TRUE}),
               vo \in (IF agentCache.state = "unset" THEN BOOLEAN ELSE {TRUE}) :
            LET miss == agentCache.state = "unset"
                i == RobustInitializeAgent(r, eo, vo)
                c == IF miss THEN i.agent ELSE agentCache
            IN  /\ agentCache' = c
                /\ agentModel' = IF miss /\ c.state = "ready"
                                 THEN c.models[1] ELSE agentModel
                /\ embedder' = IF miss THEN i.embedder ELSE embedder
                /\ cache' = IF miss THEN i.cache ELSE cache
                /\ ingests' = IF miss /\ cache = "unset" /\ i.cache = "ok"
                              THEN ingests + 1 ELSE ingests
                /\ IF c.state = "ready"
                   THEN /\ ret' = [ret EXCEPT ![p] = Pending]
                        /\ log' = [log EXCEPT ![p] = <<InitEv>>]
                        /\ pc' = [pc EXCEPT ![p] = "select"]
                   ELSE /\ ret' = [ret EXCEPT ![p] =
                                     RobustSearchDocumentsOnly(Strip(question), FALSE, "ok")]
                        /\ log' = [log EXCEPT ![p] = <<InitEv, InitEv>>]
                        /\ pc' = [pc EXCEPT ![p] = "done"]
    /\ UNCHANGED <<envVars, status, lock, spc, flag, searchVars, appVars>>

\* the head of a loop iteration: select the model, update the shared agent
RobustSelect(p) ==
    /\ variant = "robust" /\ p \in callers /\ pc[p] = "select"
    /\ cur' = [cur EXCEPT ![p] = SelectModel(agentCache.models, attempt[p])]
    /\ agentModel' = AgentModelAfterSelect(agentModel, cur'[p], attempt[p])
    /\ pc' = [pc EXCEPT ![p] = "run"]
    /\ UNCHANGED <<envVars, statusVars, agentCache, q, attempt, log, ret, prev, initVars, searchVars, appVars>>

\* agent.run(question) on the agent's model, and the rest of the iteration
RobustRun(p) ==
    /\ variant = "robust" /\ p \in callers /\ pc[p] = "run"
    /\ \E o \in GenOutcomes, s \in SearchOutcomes :
        /\ GenAllowed(agentModel, o) /\ SearchAllowed(s)
        /\ LET h == RobustHandle(attempt[p], agentCache.models, o, q[p], s,
                                 FirstError(log[p], o))
           IN  /\ log' = [log EXCEPT ![p] = @ \o <<GenEv(agentModel, cur[p], o)>> \o h.ev]
               /\ ret' = [ret EXCEPT ![p] = h.ret]
               /\ pc' = [pc EXCEPT ![p] = IF h.next = "return" THEN "done" ELSE "select"]
               /\ attempt' = [attempt EXCEPT ![p] = IF h.next = "return" THEN @ ELSE @ + 1]
    /\ UNCHANGED <<envVars, statusVars, agentVars, q, cur, prev, initVars, searchVars, appVars>>

(***************************************************************************)
(* rag_agent_cloud.get_answer                                              *)
(***************************************************************************)
CloudError(msg) ==
    <<"[x]", " Sorry, I encountered an error: ">> \o msg
        \o <<"\n\n", "Trying document search instead...">>
InitError == <<"initialization failed">>
AttributeError == <<"'str' object has no attribute 'content'">>

\* rag_agent_cloud.initialize_agent raises (nothing is memoized then) or
\* returns the agent with both models
CloudInitResults == {NoAgent, Ready(Models)}

\* what the loop body sees: reading .content of a bare string raises
CloudSeen(o) == IF o.kind = "str" THEN Raise(AttributeError) ELSE o

\* the outer `except Exception as e` of get_answer
CloudExcept(msg) == [next |-> "return", ret |-> CloudError(msg), ev |-> <<>>]

CloudHandle(a, ms, o, question, s) ==
    IF o.kind = "content" /\ o.text # <<>>
    THEN [next |-> "return", ret |-> o.text, ev |-> <<>>]
    ELSE IF o.kind # "raise"
    THEN IF a < max_retries
         THEN [next |-> "continue", ret |-> Pending, ev |-> <<>>]
         ELSE [next |-> "return", ret |-> CloudSearchDocumentsOnly(question, s),
               ev |-> <<InitEv, SearchEv(s)>>]
    ELSE IF IsQuotaError(o.text, CloudQuotaErrors)
    THEN IF a < Len(ms) - 1
         THEN [next |-> "continue", ret |-> Pending, ev |-> QuotaWait]
         ELSE [next |-> "return", ret |-> CloudSearchDocumentsOnly(question, s),
               ev |-> <<InitEv, SearchEv(s)>>]
    ELSE IF a < max_retries
         THEN [next |-> "continue", ret |-> Pending, ev |-> <<>>]
         ELSE CloudExcept(o.text)

CloudEnter(p, question) ==
    /\ variant = "cloud" /\ p \in callers /\ pc[p] \in {"idle", "done"}
    /\ Imported
    /\ prev' = Remember(p)
    /\ q' = [q EXCEPT ![p] = question]
    /\ attempt' = [attempt EXCEPT ![p] = 0]
    /\ cur' = [cur EXCEPT ![p] = NoModel]
    /\ IF IsBlank(question)
       THEN /\ ret' = [ret EXCEPT ![p] = ValidationMessage]
            /\ log' = [log EXCEPT ![p] = <<>>]
            /\ pc' = [pc EXCEPT ![p] = "done"]
            /\ UNCHANGED agentVars
       ELSE \E r \in CloudInitResults :
            LET c == IF agentCache.state = "unset" THEN r ELSE agentCache
            IN  /\ log' = [log EXCEPT ![p] = <<InitEv>>]
                /\ IF c.state = "ready"
                   THEN /\ agentCache' = c
                        /\ agentModel' = IF agentCache.state = "unset"
                                         THEN c.models[1] ELSE agentModel
                        /\ ret' = [ret EXCEPT ![p] = Pending]
                        /\ pc' = [pc EXCEPT ![p] = "select"]
                   ELSE /\ UNCHANGED agentVars
                        /\ ret' = [ret EXCEPT ![p] = CloudExcept(InitError).ret]
                        /\ pc' = [pc EXCEPT ![p] = "done"]
    /\ UNCHANGED <<envVars, statusVars, initVars, searchVars, appVars>>

CloudSelect(p) ==
    /\ variant = "cloud" /\ p \in callers /\ pc[p] = "select"
    /\ cur' = [cur EXCEPT ![p] = SelectModel(agentCache.models, attempt[p])]
    /\ agentModel' = AgentModelAfterSelect(agentModel, cur'[p], attempt[p])
    /\ pc' = [pc EXCEPT ![p] = "run"]
    /\ UNCHANGED <<envVars, statusVars, agentCache, q, attempt, log, ret, prev, initVars, searchVars, appVars>>

CloudRun(p) ==
    /\ variant = "cloud" /\ p \in callers /\ pc[p] = "run"
    /\ \E o \in GenOutcomes, s \in SearchOutcomes :
        /\ GenAllowed(agentModel, o) /\ SearchAllowed(s)
        /\ LET h == CloudHandle(attempt[p], agentCache.models, CloudSeen(o), q[p], s)
           IN  /\ log' = [log EXCEPT ![p] = @ \o <<GenEv(agentModel, cur[p], o)>> \o h.ev]
               /\ ret' = [ret EXCEPT ![p] = h.ret]
               /\ pc' = [pc EXCEPT ![p] = IF h.next = "return" THEN "done" ELSE "select"]
               /\ attempt' = [attempt EXCEPT ![p] = IF h.next = "return" THEN @ ELSE @ + 1]
    /\ UNCHANGED <<envVars, statusVars, agentVars, q, cur, prev, initVars, searchVars, appVars>>

(***************************************************************************)
(* rag_agent: search_documents_only and get_answer                         *)
(***************************************************************************)
LocalMaxContent == 200    \* truncation of a listed document (rag_agent)

LocalNoDocs == <<"[x]", " No relevant documents found for your question.">>
LocalSearchError == <<"[x]", " Error searching documents. Please try again later.">>
LocalHeader == <<"[books]", " **Document Search Results** (AI currently unavailable):">>
LocalNote ==
    <<"\n\n", "[bulb]", " **Note:** AI quota exceeded. Showing direct document matches.">>
LocalResult(i, doc) ==
    <<"\n", "**Result ">> \o Str(i) \o <<":** ">> \o Truncate(doc.content, LocalMaxContent)

LocalSearchDocumentsOnly(question, s) ==
    IF s = "raise" THEN LocalSearchError
    ELSE IF KbSearch(question, limit) = <<>> THEN LocalNoDocs
    ELSE IF s = "format" THEN LocalSearchError
    ELSE Join(<<"\n">>,
              <<LocalHeader>>
                \o [i \in 1..Len(KbSearch(question, limit)) |->
                       LocalResult(i, KbSearch(question, limit)[i])]
                \o <<LocalNote>>)

\* the loop body of rag_agent.get_answer on models[i] (i counted from 0)
LocalHandle(i, ms, o, question, s) ==
    IF o.kind = "content" \/ (o.kind = "str" /\ o.text # <<>>)
    THEN [next |-> "return", ret |-> Strip(o.text), ev |-> <<>>]
    ELSE IF i < Len(ms) - 1
    THEN [next |-> "continue", ret |-> Pending, ev |-> <<>>]
    ELSE [next |-> "return", ret |-> LocalSearchDocumentsOnly(question, s),
          ev |-> <<SearchEv(s)>>]

LocalEnter(p, question) ==
    /\ variant = "local" /\ p \in callers /\ pc[p] \in {"idle", "done"}
    /\ Imported
    /\ prev' = Remember(p)
    /\ q' = [q EXCEPT ![p] = question]
    /\ attempt' = [attempt EXCEPT ![p] = 0]
    /\ cur' = [cur EXCEPT ![p] = NoModel]
    /\ ret' = [ret EXCEPT ![p] = Pending]
    /\ log' = [log EXCEPT ![p] = <<>>]
    /\ pc' = [pc EXCEPT ![p] = "select"]
    /\ UNCHANGED <<envVars, statusVars, agentVars, initVars, searchVars, appVars>>

\* agent.model = model
LocalSelect(p) ==
    /\ variant = "local" /\ p \in callers /\ pc[p] = "select"
    /\ cur' = [cur EXCEPT ![p] = agentCache.models[attempt[p] + 1]]
    /\ agentModel' = cur'[p]
    /\ pc' = [pc EXCEPT ![p] = "run"]
    /\ UNCHANGED <<envVars, statusVars, agentCache, q, attempt, log, ret, prev, initVars, searchVars, appVars>>

\* reply = agent.run(question), and the rest of the iteration
LocalRun(p) ==
    /\ variant = "local" /\ p \in callers /\ pc[p] = "run"
    /\ \E o \in GenOutcomes, s \in SearchOutcomes :
        /\ GenAllowed(agentModel, o) /\ SearchAllowed(s)
        /\ LET h == LocalHandle(attempt[p], agentCache.models, o, q[p], s)
           IN  /\ log' = [log EXCEPT ![p] = @ \o <<GenEv(agentModel, cur[p], o)>> \o h.ev]
               /\ ret' = [ret EXCEPT ![p] = h.ret]
               /\ pc' = [pc EXCEPT ![p] = IF h.next = "return" THEN "done" ELSE "select"]
               /\ attempt' = [attempt EXCEPT ![p] = IF h.next = "return" THEN @ ELSE @ + 1]
    /\ UNCHANGED <<envVars, statusVars, agentVars, q, cur, prev, initVars, searchVars, appVars>>

(***************************************************************************)
(* rag_agent_safe: simple_search and get_snippet                           *)
(***************************************************************************)
PhraseWeight == 50        \* score of the whole query occurring in the content
WordWeight == 5           \* score of one occurrence of a query word
FilenameBonus == 10       \* score of a query word occurring in the filename
MinWordLength == 2        \* query words are the tokens longer than this
snippet_length == 300     \* default of get_snippet(..., snippet_length=300)
SnippetStep == 50         \* step of the window offsets tried by get_snippet

\* [word.strip() for word in query_lower.split() if len(word.strip()) > 2]
QueryWords(query) == SelectSeq(Split(Lower(query)), LAMBDA w : Len(w) > MinWordLength)

\* the sum of a list of numbers
RECURSIVE SumSeq(_)
SumSeq(ns) == IF ns = <<>> THEN 0 ELSE Head(ns) + SumSeq(Tail(ns))

\* sum(content.count(word) for word in words), repetitions included
SumCounts(content, words) == SumSeq([i \in DOMAIN words |-> Count(content, words[i])])

\* IsMatch that keeps every document
IsMatch_Any(d) == d.score >= 0

\* `if score > 0`: the document is kept in the result
IsMatch(d) == d.score > 0

\* SafeScore that counts a query word once however often it occurs
SafeScore_Presence(query, doc) ==
    LET content_lower == Lower(doc.content)
        WordScore(w) == (IF Contains(content_lower, w) THEN WordWeight ELSE 0)
                          + (IF Contains(Lower(doc.filename), w) THEN FilenameBonus ELSE 0)
    IN  (IF Contains(content_lower, Lower(query)) THEN PhraseWeight ELSE 0)
          + SumSeq([i \in DOMAIN QueryWords(query) |-> WordScore(QueryWords(query)[i])])

\* the score simple_search gives one document
SafeScore(query, doc) ==
    LET content_lower == Lower(doc.content)
        WordScore(w) == Count(content_lower, w) * WordWeight
                          + (IF Contains(Lower(doc.filename), w) THEN FilenameBonus ELSE 0)
    IN  (IF Contains(content_lower, Lower(query)) THEN PhraseWeight ELSE 0)
          + SumSeq([i \in DOMAIN QueryWords(query) |-> WordScore(QueryWords(query)[i])])

\* the loop of get_snippet over the offsets i, i + 50, ... below len - 300
RECURSIVE BestPos(_, _, _, _, _)
BestPos(content_lower, query_words, i, best_pos, best_score) ==
    IF i + snippet_length >= Len(content_lower) THEN best_pos
    ELSE LET section == Slice(content_lower, i, i + snippet_length)
             score == SumCounts(section, query_words)
         IN  IF score > best_score
             THEN BestPos(content_lower, query_words, i + SnippetStep, i, score)
             ELSE BestPos(content_lower, query_words, i + SnippetStep, best_pos, best_score)

get_snippet(content, query_words) ==
    LET best_pos == BestPos(Lower(content), query_words, 0, 0, 0)
    IN  (IF best_pos > 0 THEN Ellipsis ELSE <<>>)
          \o Slice(content, best_pos, best_pos + snippet_length)
          \o (IF best_pos + snippet_length < Len(content) THEN Ellipsis ELSE <<>>)

\* the sort order without reverse=True
StaysBefore_Ascending(a, b) == a.score <= b.score

\* key=lambda x: x['score'], reverse=True: a, listed earlier, stays before b
StaysBefore(a, b) == a.score >= b.score

\* list.sort(key=score, reverse=True): stable, higher scores first
RECURSIVE InsertByScore(_, _)
InsertByScore(sorted, d) ==
    IF sorted = <<>> THEN <<d>>
    ELSE IF StaysBefore(Head(sorted), d)
         THEN <<Head(sorted)>> \o InsertByScore(Tail(sorted), d)
         ELSE <<d>> \o sorted

RECURSIVE SortByScore(_)
SortByScore(docs) ==
    IF docs = <<>> THEN <<>>
    ELSE InsertByScore(SortByScore(SubSeq(docs, 1, Len(docs) - 1)), docs[Len(docs)])

\* Top without the slice
Top_All(docs, n) == docs

\* scored_docs[:limit] for a limit that is not negative
Top(docs, n) == SubSeq(docs, 1, Min(n, Len(docs)))

\* rag_agent_safe.simple_search(query, documents, limit)
SafeSimpleSearch(query, documents, n) ==
    LET scored == [i \in 1..Len(documents) |->
                      [filename |-> documents[i].filename,
                       content |-> documents[i].content,
                       score |-> SafeScore(query, documents[i]),
                       snippet |-> get_snippet(documents[i].content, QueryWords(query))]]
        matching == SelectSeq(scored, IsMatch)
    IN  Top(SortByScore(matching), n)

(***************************************************************************)
(* rag_agent_safe: search_documents_only, get_ai_response, get_answer      *)
(***************************************************************************)
SafeNoDocsForSearch ==
    <<"[x]", " No documents available for search. Please ensure text files are in the data directory.">>
SafeNoDocs ==
    <<"[x]", " No documents available. Please ensure text files are in the data directory.">>
SafeNoRelevantForSearch(question) ==
    <<"[x]", " No relevant information found for: '">> \o question
        \o <<"'", "\n\n", "Try rephrasing your question or asking about a different topic.">>
SafeNoRelevant(question) ==
    <<"[x]", " No relevant information found for: '">> \o question \o <<"'">>
SafeResult(i, n, doc) ==
    <<(<<"**", "[clip]", " Result ">> \o Str(i) \o <<" (from ">> \o doc.filename
          \o <<"):**", "\n">> \o doc.snippet \o <<"\n">>)>>
        \o (IF i < n THEN <<(<<"---", "\n">>)>> ELSE <<>>)

RECURSIVE Flatten(_)
Flatten(lists) == IF lists = <<>> THEN <<>> ELSE Head(lists) \o Flatten(Tail(lists))

SafeSearchDocumentsOnly(question, documents) ==
    IF documents = <<>> THEN SafeNoDocsForSearch
    ELSE LET results == SafeSimpleSearch(question, documents, limit)
         IN  IF results = <<>> THEN SafeNoRelevantForSearch(question)
             ELSE Join(<<"\n">>,
                       <<RobustFoundHeader(Len(results))>>
                         \o Flatten([i \in 1..Len(results) |->
                                        SafeResult(i, Len(results), results[i])]))

SafeNoKey ==
    <<"[x]", " Google API key not found. Please configure it in Streamlit secrets.">>
SafeBusyPrefix == <<"[bot]", " AI service is currently busy">>
SafeBusy == SafeBusyPrefix \o <<". Here's what I found in the documents instead.">>
SafeAllUnavailable == <<"[x]", " All AI models are currently unavailable.">>
SafeFallbackMsg ==
    <<"[bot]", " AI assistant is currently unavailable. Here's what I found in the documents:",
      "\n\n">>

\* SafeTry that gives up at the first model that fails
SafeTry_GivesUp(i, o) ==
    IF o.kind = "content" /\ o.text # <<>>
    THEN [next |-> "return", ret |-> o.text]
    ELSE [next |-> "return", ret |-> SafeAllUnavailable]

\* one iteration of the loop of get_ai_response on models_to_try[i]
\* (i counted from 1), generate_content having returned or raised o: the
\* string get_ai_response returns, or the move to the next model
SafeTry(i, o) ==
    IF o.kind = "content" /\ o.text # <<>>
    THEN [next |-> "return", ret |-> o.text]
    ELSE IF o.kind = "raise" /\ IsQuotaError(o.text, SafeQuotaErrors)
            /\ i = Len(models_to_try)
    THEN [next |-> "return", ret |-> SafeBusy]
    ELSE IF i = Len(models_to_try)
    THEN [next |-> "return", ret |-> SafeAllUnavailable]
    ELSE [next |-> "continue", ret |-> Pending]

\* "From <filename>:\n<snippet>" of the relevant documents, joined by blank lines
SafeContext(relevant_docs) ==
    Join(<<"\n\n">>,
         [i \in 1..Len(relevant_docs) |->
             <<"From ">> \o relevant_docs[i].filename \o <<":", "\n">>
               \o relevant_docs[i].snippet])

\* `ai_response and not startswith(cross) and not startswith(busy)`
SafeIsValid(ai_response) ==
    /\ ai_response # <<>>
    /\ ~StartsWith(ai_response, <<"[x]">>)
    /\ ~StartsWith(ai_response, SafeBusyPrefix)

\* SafeAnswer without fallback_msg
SafeAnswer_NoNotice(ai_response, question, documents) ==
    IF SafeIsValid(ai_response) THEN ai_response
    ELSE SafeSearchDocumentsOnly(question, documents)

\* the end of get_answer, get_ai_response having returned ai_response
SafeAnswer(ai_response, question, documents) ==
    IF SafeIsValid(ai_response) THEN ai_response
    ELSE SafeFallbackMsg \o SafeSearchDocumentsOnly(question, documents)

SafeAnswerEvents(ai_response) ==
    IF SafeIsValid(ai_response) THEN <<>> ELSE <<LoadEv, SearchEv("ok")>>

\* get_answer up to the first generate_content call of get_ai_response
SafeEnter(p, question) ==
    /\ variant = "safe" /\ p \in callers /\ pc[p] \in {"idle", "done"}
    /\ prev' = Remember(p)
    /\ q' = [q EXCEPT ![p] = Strip(question)]
    /\ attempt' = [attempt EXCEPT ![p] = 0]
    /\ cur' = [cur EXCEPT ![p] = NoModel]
    /\ IF IsBlank(question)
       THEN /\ ret' = [ret EXCEPT ![p] = ValidationMessage]
            /\ log' = [log EXCEPT ![p] = <<>>]
            /\ pc' = [pc EXCEPT ![p] = "done"]
       ELSE IF corpus = <<>>
       THEN /\ ret' = [ret EXCEPT ![p] = SafeNoDocs]
            /\ log' = [log EXCEPT ![p] = <<LoadEv>>]
            /\ pc' = [pc EXCEPT ![p] = "done"]
       ELSE IF SafeSimpleSearch(Strip(question), corpus, limit) = <<>>
       THEN /\ ret' = [ret EXCEPT ![p] = SafeNoRelevant(Strip(question))]
            /\ log' = [log EXCEPT ![p] = <<LoadEv, SearchEv("ok")>>]
            /\ pc' = [pc EXCEPT ![p] = "done"]
       ELSE IF ~apiKey
       THEN /\ ret' = [ret EXCEPT ![p] = SafeAnswer(SafeNoKey, Strip(question), corpus)]
            /\ log' = [log EXCEPT ![p] =
                         <<LoadEv, SearchEv("ok"), AiEv(SafeNoKey)>>
                           \o SafeAnswerEvents(SafeNoKey)]
            /\ pc' = [pc EXCEPT ![p] = "done"]
       ELSE /\ ret' = [ret EXCEPT ![p] = Pending]
            /\ log' = [log EXCEPT ![p] = <<LoadEv, SearchEv("ok")>>]
            /\ pc' = [pc EXCEPT ![p] = "run"]
    /\ UNCHANGED <<envVars, statusVars, agentVars, initVars, searchVars, appVars>>

\* one iteration of the loop of get_ai_response and, when it returns, the
\* rest of get_answer
SafeGenerate(p) ==
    /\ variant = "safe" /\ p \in callers /\ pc[p] = "run"
    /\ \E o \in GenOutcomes :
        /\ GenAllowed(models_to_try[attempt[p] + 1], o)
        /\ LET m == models_to_try[attempt[p] + 1]
               h == SafeTry(attempt[p] + 1, o)
           IN  IF h.next = "return"
               THEN /\ ret' = [ret EXCEPT ![p] = SafeAnswer(h.ret, q[p], corpus)]
                    /\ log' = [log EXCEPT ![p] =
                                 @ \o <<GenEv(m, m, o), AiEv(h.ret)>>
                                   \o SafeAnswerEvents(h.ret)]
                    /\ pc' = [pc EXCEPT ![p] = "done"]
                    /\ UNCHANGED attempt
               ELSE /\ log' = [log EXCEPT ![p] = @ \o <<GenEv(m, m, o)>>]
                    /\ attempt' = [attempt EXCEPT ![p] = @ + 1]
                    /\ UNCHANGED <<ret, pc>>
    /\ UNCHANGED <<envVars, statusVars, agentVars, q, cur, prev, initVars, searchVars, appVars>>

(***************************************************************************)
(* rag_agent_fallback                                                      *)
(***************************************************************************)
FallbackMaxContent == 500   \* truncation of a listed document (fallback)

\* the sum over the query's tokens of their occurrences in the content
FallbackScore(query, doc) ==
    SumCounts(Lower(doc.content), Split(Lower(query)))

FallbackSimpleSearch(query, documents, n) ==
    LET scored == [i \in 1..Len(documents) |->
                      [filename |-> documents[i].filename,
                       content |-> documents[i].content,
                       score |-> FallbackScore(query, documents[i])]]
        matching == SelectSeq(scored, IsMatch)
    IN  Top(SortByScore(matching), n)

FallbackNoDocsForSearch == <<"[x]", " No documents available for search.">>
FallbackNoDocs ==
    <<"[x]", " No documents available. Please add text files to the data directory.">>
FallbackNoRelevantForSearch(question) ==
    <<"[x]", " No relevant documents found for: '">> \o question \o <<"'">>
FallbackResult(i, doc) ==
    <<"**", "[clip]", " Result ">> \o Str(i) \o <<" (from ">> \o doc.filename
        \o <<"):**", "\n">> \o Truncate(doc.content, FallbackMaxContent) \o <<"\n">>

FallbackSearchDocumentsOnly(question, documents) ==
    IF documents = <<>> THEN FallbackNoDocsForSearch
    ELSE LET results == FallbackSimpleSearch(question, documents, limit)
         IN  IF results = <<>> THEN FallbackNoRelevantForSearch(question)
             ELSE Join(<<"\n">>,
                       <<RobustFoundHeader(Len(results))>>
                         \o [i \in 1..Len(results) |-> FallbackResult(i, results[i])])

FallbackNoKey == <<"[x]", " Google API key not found">>
FallbackFailed(msg) == <<"[x]", " AI response failed: ">> \o msg
NoTextError == <<"object has no attribute 'text'">>

\* rag_agent_fallback.get_ai_response: one call of gemini-1.5-flash
FallbackAiResponse(o) ==
    IF ~apiKey THEN [ret |-> FallbackNoKey, ev |-> <<>>]
    ELSE [ret |-> IF o.kind = "content" THEN o.text
                  ELSE IF o.kind = "raise" THEN FallbackFailed(o.text)
                  ELSE FallbackFailed(NoTextError),
          ev |-> <<GenEv(Models[1], Models[1], o)>>]

FallbackGetAnswer(p, question) ==
    /\ variant = "fallback" /\ p \in callers /\ pc[p] \in {"idle", "done"}
    /\ prev' = Remember(p)
    /\ q' = [q EXCEPT ![p] = Strip(question)]
    /\ pc' = [pc EXCEPT ![p] = "done"]
    /\ \E o \in GenOutcomes :
        /\ GenAllowed(Models[1], o)
        /\ LET stripped == Strip(question)
               relevant_docs == FallbackSimpleSearch(stripped, corpus, limit)
               ai == FallbackAiResponse(o)
           IN  IF IsBlank(question)
               THEN /\ ret' = [ret EXCEPT ![p] = ValidationMessage]
                    /\ log' = [log EXCEPT ![p] = <<>>]
               ELSE IF corpus = <<>>
               THEN /\ ret' = [ret EXCEPT ![p] = FallbackNoDocs]
                    /\ log' = [log EXCEPT ![p] = <<LoadEv>>]
               ELSE IF relevant_docs = <<>>
               THEN /\ ret' = [ret EXCEPT ![p] = SafeNoRelevant(stripped)]
                    /\ log' = [log EXCEPT ![p] = <<LoadEv, SearchEv("ok")>>]
               ELSE IF ai.ret # <<>> /\ ~StartsWith(ai.ret, <<"[x]">>)
               THEN /\ ret' = [ret EXCEPT ![p] = ai.ret]
                    /\ log' = [log EXCEPT ![p] = <<LoadEv, SearchEv("ok")>> \o ai.ev]
               ELSE /\ ret' = [ret EXCEPT ![p] =
                                 FallbackSearchDocumentsOnly(stripped, corpus)]
                    /\ log' = [log EXCEPT ![p] =
                                 <<LoadEv, SearchEv("ok")>> \o ai.ev \o <<LoadEv, SearchEv("ok")>>]
    /\ UNCHANGED <<envVars, statusVars, agentVars, attempt, cur, initVars, searchVars, appVars>>

(***************************************************************************)
(* The callers of get_answer, one call after the other                     *)
(***************************************************************************)
Variants == {"robust", "cloud", "local", "safe", "fallback"}

NoPrev == [q |-> <<>>, ret |-> Pending, done |-> FALSE, gens |-> 0]

InitCalls ==
    /\ pc = [p \in Callers |-> "idle"]
    /\ q = [p \in Callers |-> <<>>]
    /\ attempt = [p \in Callers |-> 0]
    /\ cur = [p \in Callers |-> NoModel]
    /\ log = [p \in Callers |-> <<>>]
    /\ ret = [p \in Callers |-> Pending]
    /\ prev = [p \in Callers |-> NoPrev]

\* rag_agent builds its agent at import, after the test of the key; the
\* other variants on the first call
InitAgent ==
    /\ agentCache = IF variant = "local"
                    THEN (IF Imported THEN Ready(Models) ELSE NoAgent) ELSE Unset
    /\ agentModel = IF variant = "local" /\ Imported THEN Models[1] ELSE NoModel

IdleInit ==
    /\ cache = "unset" /\ lock = 0 /\ ingests = 0
    /\ spc = [p \in Callers |-> "off"]
    /\ flag = [p \in Callers |-> FALSE]

NoStatus == [called |-> FALSE]

IdleStatus ==
    /\ embedder = "unset"
    /\ status = [p \in Callers |-> NoStatus]

IdleSearch ==
    /\ sq = <<>> /\ sdocs = <<>> /\ sres = <<>>
    /\ sold = [docs |-> <<>>, res |-> <<>>]
    /\ sadd = [doc |-> 0, word |-> <<>>, pos |-> 0]
    /\ sctx = <<>>

\* st.session_state of a session that has not run the script yet, and the
\* script run under way: at is the position in the run, click and input the
\* widget values of the run; tested (test_setup has returned True since the
\* last refresh) and asked (what the last click came to: "refreshed",
\* "cleared", "blank" for a Send without a question, "shown" or "hidden"
\* for a get_answer call with the flag set or unset) are history
NoSession ==
    [initialized |-> FALSE, history |-> <<>>, at |-> "idle", click |-> "none",
     input |-> <<>>, tested |-> FALSE, asked |-> "no"]

\* no call of ingest_documents: dir is the state of the data directory,
\* files its listing, at the position of the call, i the loop index, tried
\* the files handed to a knowledge base, ok is successful_ingestions
NoIngest ==
    [dir |-> "missing", files |-> <<>>, at |-> "idle", i |-> 0, tried |-> <<>>,
     ok |-> 0, ret |-> "none"]

IdleApp ==
    /\ app = "none"
    /\ session = [p \in Callers |-> NoSession]

IdleIngest == ingest = NoIngest

Init ==
    /\ variant \in Variants
    /\ corpus \in Corpora
    /\ apiKey \in BOOLEAN
    /\ backend = WideBackend
    /\ callers = {1}
    /\ InitAgent /\ InitCalls /\ IdleInit /\ IdleSearch /\ IdleStatus /\ IdleApp /\ IdleIngest

Next ==
    \E p \in Callers :
        \/ \E question \in Questions : RobustEnter(p, question)
        \/ RobustSelect(p)
        \/ RobustRun(p)
        \/ \E question \in Questions : CloudEnter(p, question)
        \/ CloudSelect(p)
        \/ CloudRun(p)
        \/ \E question \in Questions : LocalEnter(p, question)
        \/ LocalSelect(p)
        \/ LocalRun(p)
        \/ \E question \in Questions : SafeEnter(p, question)
        \/ SafeGenerate(p)
        \/ \E question \in Questions : FallbackGetAnswer(p, question)

Spec == Init /\ [][Next]_vars

(***************************************************************************)
(* The same calls against a backend that is a fixed function of the model  *)
(* (the prompt of a question is the same in every call)                    *)
(***************************************************************************)
DetBackends == {b \in FixedBackends : b.gen[models_to_try[3]] = NoResponse}

InitDet ==
    /\ variant \in {"robust", "cloud"}
    /\ corpus \in Corpora
    /\ apiKey = TRUE
    /\ backend \in DetBackends
    /\ callers = {1}
    /\ InitAgent /\ InitCalls /\ IdleInit /\ IdleSearch /\ IdleStatus /\ IdleApp /\ IdleIngest

NextDet ==
    \E p \in Callers :
        \/ \E question \in Questions : RobustEnter(p, question)
        \/ RobustSelect(p)
        \/ RobustRun(p)
        \/ \E question \in Questions : CloudEnter(p, question)
        \/ CloudSelect(p)
        \/ CloudRun(p)

SpecDet == InitDet /\ [][NextDet]_vars

(***************************************************************************)
(* The calls of rag_agent_robust and rag_agent_cloud under a scheduler     *)
(* that goes on: get_answer is one function call of the session's thread,  *)
(* agent.run returns or raises, and time.sleep returns                     *)
(***************************************************************************)
InitLoop ==
    /\ variant \in {"robust", "cloud"}
    /\ corpus \in Corpora
    /\ apiKey = TRUE
    /\ backend = AnyBackend
    /\ callers = {1}
    /\ InitAgent /\ InitCalls /\ IdleInit /\ IdleSearch /\ IdleStatus /\ IdleApp /\ IdleIngest

\* a call that has entered the loop takes its next step
LoopStep(p) == RobustSelect(p) \/ RobustRun(p) \/ CloudSelect(p) \/ CloudRun(p)

SpecLoop == InitLoop /\ [][NextDet]_vars /\ \A p \in Callers : WF_vars(LoopStep(p))

(***************************************************************************)
(* Callers that run get_answer at the same time on the one agent object:   *)
(* Streamlit runs the script of every session in a thread of its own       *)
(***************************************************************************)
SharedAgentQuestions == {<<"a", "a", "a">>}

InitShared ==
    /\ variant \in {"robust", "local"}
    /\ corpus = <<DocC, DocA>>
    /\ apiKey = TRUE
    /\ backend = AnyBackend
    /\ callers = Callers
    /\ InitAgent /\ InitCalls /\ IdleInit /\ IdleSearch /\ IdleStatus /\ IdleApp /\ IdleIngest

NextShared ==
    \E p \in Callers :
        \/ \E question \in SharedAgentQuestions : RobustEnter(p, question)
        \/ RobustSelect(p)
        \/ RobustRun(p)
        \/ \E question \in SharedAgentQuestions : LocalEnter(p, question)
        \/ LocalSelect(p)
        \/ LocalRun(p)

SpecShared == InitShared /\ [][NextShared]_vars

(***************************************************************************)
(* initialize_vector_db behind st.cache_resource, called by the sessions   *)
(* of one process.  The cache looks the entry up; on a miss it takes the   *)
(* entry's compute lock, looks the entry up again, runs the function and   *)
(* stores what it returned; an exception is not stored.                    *)
(***************************************************************************)
\* VectorDbIsCached without the decorator
VectorDbIsCached_No == FALSE

\* @st.cache_resource on initialize_vector_db
VectorDbIsCached == TRUE

\* a session calls initialize_vector_db(): the lookup without the lock
CallVectorDb(p) ==
    /\ spc[p] = "off"
    /\ spc' = [spc EXCEPT ![p] =
                 IF ~VectorDbIsCached THEN "body"
                 ELSE IF cache # "unset" THEN "got" ELSE "wait"]
    /\ UNCHANGED <<cache, lock, flag, ingests, envVars, statusVars, agentVars, callVars, searchVars, appVars>>

\* the compute lock of the entry is taken
AcquireLock(p) ==
    /\ spc[p] = "wait" /\ lock = 0
    /\ lock' = p
    /\ spc' = [spc EXCEPT ![p] = "locked"]
    /\ UNCHANGED <<cache, flag, ingests, envVars, statusVars, agentVars, callVars, searchVars, appVars>>

\* the second lookup, under the lock
Recheck(p) ==
    /\ spc[p] = "locked"
    /\ IF cache # "unset"
       THEN /\ lock' = 0
            /\ spc' = [spc EXCEPT ![p] = "got"]
       ELSE /\ spc' = [spc EXCEPT ![p] = "body"]
            /\ UNCHANGED lock
    /\ UNCHANGED <<cache, flag, ingests, envVars, statusVars, agentVars, callVars, searchVars, appVars>>

\* `if not hasattr(st.session_state, 'documents_ingested')` of
\* rag_agent_cloud; rag_agent_robust ingests without a test
ShouldIngest(p) == variant = "robust" \/ ~flag[p]

\* the function body up to and including ingest_documents: the embedder or
\* the ChromaDb constructor may fail before, which rag_agent_robust turns
\* into a None result and rag_agent_cloud lets escape
VectorDbBody(p) ==
    /\ spc[p] = "body"
    /\ \E ok \in BOOLEAN :
        IF ~ok
        THEN /\ spc' = [spc EXCEPT ![p] = IF variant = "robust" THEN "none" ELSE "raised"]
             /\ UNCHANGED <<flag, ingests>>
        ELSE /\ spc' = [spc EXCEPT ![p] = "built"]
             /\ ingests' = IF ShouldIngest(p) THEN ingests + 1 ELSE ingests
             /\ flag' = [flag EXCEPT ![p] = IF variant = "cloud" THEN TRUE ELSE @]
    /\ UNCHANGED <<cache, lock, envVars, statusVars, agentVars, callVars, searchVars, appVars>>

\* the function returns or raises: the cache stores a returned value and
\* releases the lock
VectorDbReturn(p) ==
    /\ spc[p] \in {"none", "raised", "built"}
    /\ cache' = IF ~VectorDbIsCached \/ spc[p] = "raised" THEN cache
                ELSE IF spc[p] = "built" THEN "ok" ELSE "none"
    /\ lock' = IF lock = p THEN 0 ELSE lock
    /\ spc' = [spc EXCEPT ![p] = IF spc[p] = "raised" THEN "failed" ELSE "got"]
    /\ UNCHANGED <<flag, ingests, envVars, statusVars, agentVars, callVars, searchVars, appVars>>

\* the session's script run is over; its next run calls again
NextRequest(p) ==
    /\ spc[p] \in {"got", "failed"}
    /\ spc' = [spc EXCEPT ![p] = "off"]
    /\ UNCHANGED <<cache, lock, flag, ingests, envVars, statusVars, agentVars, callVars, searchVars, appVars>>

InitStartup ==
    /\ variant \in {"robust", "cloud"}
    /\ corpus \in Corpora
    /\ apiKey = TRUE
    /\ backend = AnyBackend
    /\ callers = {}
    /\ InitAgent /\ InitCalls /\ IdleInit /\ IdleSearch /\ IdleStatus /\ IdleApp /\ IdleIngest

NextStartup ==
    \E p \in Callers :
        \/ CallVectorDb(p)
        \/ AcquireLock(p)
        \/ Recheck(p)
        \/ VectorDbBody(p)
        \/ VectorDbReturn(p)
        \/ NextRequest(p)

SpecStartup == InitStartup /\ [][NextStartup]_vars

(***************************************************************************)
(* get_system_status of rag_agent_robust, rag_agent_safe and               *)
(* rag_agent_fallback, called by the sessions for the side bar             *)
(***************************************************************************)
RobustStatus(key, e, v, a, n) ==
    [api_key_present |-> key, embedder_ready |-> e, vector_db_ready |-> v,
     agent_ready |-> a, documents_count |-> n]
SafeStatus(key, n, g) ==
    [api_key_present |-> key, documents_count |-> n, mode |-> "direct_google_ai",
     documents_ready |-> n > 0, ai_ready |-> key, google_ai_available |-> g]
StatusError == <<"status error">>
SafeStatusError(msg) ==
    [api_key_present |-> FALSE, documents_count |-> 0, mode |-> "error", error |-> msg]
FallbackStatus(key, n) ==
    [api_key_present |-> key, documents_count |-> n, mode |-> "fallback_text_search"]

\* rag_agent_robust.get_system_status: the three memoized initializers are
\* called in turn; eo and vo say whether the embedder and the ChromaDb
\* constructor work when they run, r is what initialize_agent builds
RobustGetSystemStatus(p, eo, vo, r) ==
    LET e == IF embedder # "unset" THEN embedder ELSE IF eo THEN "ok" ELSE "none"
        v == IF cache # "unset" THEN cache
             ELSE IF e = "ok" /\ vo THEN "ok" ELSE "none"
        a == IF agentCache.state # "unset" THEN agentCache
             ELSE IF e = "ok" /\ v = "ok" THEN r ELSE NoAgent
    IN  /\ embedder' = e
        /\ cache' = v
        /\ ingests' = IF cache = "unset" /\ v = "ok" THEN ingests + 1 ELSE ingests
        /\ agentCache' = a
        /\ agentModel' = IF agentCache.state = "unset" /\ a.state = "ready"
                         THEN a.models[1] ELSE agentModel
        /\ status' = [status EXCEPT ![p] =
                         RobustStatus(apiKey, e = "ok", v = "ok", a.state = "ready",
                                      Len(corpus))]
        /\ UNCHANGED <<lock, spc, flag>>

\* rag_agent_safe.get_system_status: g says whether google.generativeai can
\* be imported and configured, fails whether the body raised
SafeGetSystemStatus(p, g, fails) ==
    /\ status' = [status EXCEPT ![p] =
                     IF fails THEN SafeStatusError(StatusError)
                     ELSE SafeStatus(apiKey, Len(corpus), apiKey /\ g)]
    /\ UNCHANGED <<embedder, agentVars, initVars>>

FallbackGetSystemStatus(p) ==
    /\ status' = [status EXCEPT ![p] = FallbackStatus(apiKey, Len(corpus))]
    /\ UNCHANGED <<embedder, agentVars, initVars>>

GetSystemStatus(p) ==
    /\ \/ variant = "robust" /\ \E eo \in BOOLEAN, vo \in BOOLEAN, r \in RobustInitResults :
                                    RobustGetSystemStatus(p, eo, vo, r)
       \/ variant = "safe" /\ \E g \in BOOLEAN, fails \in BOOLEAN :
                                  SafeGetSystemStatus(p, g, fails)
       \/ variant = "fallback" /\ FallbackGetSystemStatus(p)
    /\ UNCHANGED <<envVars, callVars, searchVars, appVars>>

InitStatus ==
    /\ variant \in {"robust", "safe", "fallback"}
    /\ corpus \in Corpora
    /\ apiKey \in BOOLEAN
    /\ backend = AnyBackend
    /\ callers = {}
    /\ InitAgent /\ InitCalls /\ IdleInit /\ IdleSearch /\ IdleStatus /\ IdleApp /\ IdleIngest

NextStatus == \E p \in Callers : GetSystemStatus(p)

SpecStatus == InitStatus /\ [][NextStatus]_vars

(***************************************************************************)
(* rag_agent_safe.simple_search on its own: a query and a list of          *)
(* documents, then one more occurrence of a query word put into the        *)
(* content of one document and the search repeated                         *)
(***************************************************************************)
SearchQueries ==
    { <<"a", "a", "a", " ", "b", "b", "b">>,
      <<"A", "a", "a">>,
      <<"b", "b", "b", " ", "a", "b">> }

S1 == Doc(<<"one.txt">>, <<"a", "a", "a", " ", "b", "b", "b">>)
S2 == Doc(<<"two.txt">>, <<"b", "b", "b">>)
S3 == Doc(<<"A", "a", "a", ".txt">>, <<"A", "a", "a">>)
S4 == Doc(<<"four.txt">>, <<"b", "b", "b", " ", "a", "a", "a">>)
S5 == Doc(<<"five.txt">>, <<"c", "c", "c">>)

SearchCorpora ==
    { <<S1, S2>>, <<S5, S3, S1>>, <<S2, S3, S4, S1>>, <<S3, S2, S1, S4, S5>> }

\* content with word put in after its first pos characters
InsertAt(content, word, pos) ==
    SubSeq(content, 1, pos) \o word \o SubSeq(content, pos + 1, Len(content))

NoAddition == [doc |-> 0, word |-> <<>>, pos |-> 0]

\* simple_search of the module that serves the search
SimpleSearchOf(query, documents, n) ==
    IF variant = "fallback" THEN FallbackSimpleSearch(query, documents, n)
    ELSE SafeSimpleSearch(query, documents, n)

\* StoredAfterSearch that writes the score into the stored document
StoredAfterSearch_Annotated(documents, results) ==
    [d \in DOMAIN documents |->
        IF \E i \in DOMAIN results : results[i].filename = documents[d].filename
        THEN LET i == CHOOSE i \in DOMAIN results :
                          results[i].filename = documents[d].filename
             IN  [filename |-> documents[d].filename, content |-> documents[d].content,
                  score |-> results[i].score]
        ELSE documents[d]]

\* the caller's document list after simple_search returned results: every
\* scored entry is a new dict ({**doc, 'score': ...}) in a new list
\* (scored_docs), and sort() and the slice act on that list
StoredAfterSearch(documents, results) == documents

\* results = simple_search(question, documents, limit)
SimpleSearch ==
    /\ sres = <<>> /\ sadd = NoAddition
    /\ sres' = SimpleSearchOf(sq, sdocs, limit)
    /\ sres' # <<>>
    /\ sdocs' = StoredAfterSearch(sdocs, sres')
    /\ UNCHANGED <<sq, sold, sadd, sctx, envVars, statusVars, agentVars, callVars, initVars, appVars>>

\* document d gets one more occurrence of a query word; simple_search again
AddOccurrence(d, word, pos) ==
    /\ sres # <<>> /\ sadd = NoAddition
    /\ sold' = [docs |-> sdocs, res |-> sres]
    /\ sadd' = [doc |-> d, word |-> word, pos |-> pos]
    /\ LET edited == [sdocs EXCEPT ![d].content = InsertAt(@, word, pos)]
       IN  /\ sres' = SimpleSearchOf(sq, edited, limit)
           /\ sdocs' = StoredAfterSearch(edited, sres')
    /\ UNCHANGED <<sq, sctx, envVars, statusVars, agentVars, callVars, initVars, appVars>>

InitSearch ==
    /\ variant \in {"safe", "fallback"}
    /\ corpus = <<>>
    /\ apiKey = TRUE
    /\ backend = AnyBackend
    /\ callers = {}
    /\ InitAgent /\ InitCalls /\ IdleInit /\ IdleStatus /\ IdleApp /\ IdleIngest
    /\ sq \in SearchQueries
    /\ sdocs \in SearchCorpora
    /\ sres = <<>>
    /\ sold = [docs |-> <<>>, res |-> <<>>]
    /\ sadd = NoAddition
    /\ sctx = <<>>

NextSearch ==
    \/ SimpleSearch
    \/ \E d \in DOMAIN sdocs :
         \E w \in DOMAIN QueryWords(sq) :
           \E pos \in 0..Len(sdocs[d].content) :
              AddOccurrence(d, QueryWords(sq)[w], pos)

SpecSearch == InitSearch /\ [][NextSearch]_vars

(***************************************************************************)
(* rag_agent_safe.get_answer up to the context it hands to generation: a   *)
(* long document with one or two occurrences of a query word, among short  *)
(* documents that match the query too                                      *)
(***************************************************************************)
SnippetWord == <<"a", "a", "a">>
SnippetQueries == { SnippetWord, <<"a", "a", "a", " ", "b", "b", "b">> }

\* lengths of the run of "x" the occurrences are put into: with both
\* occurrences the content is as long as one window, as one window and one
\* step, one character more, and one window and two steps
SnippetBases ==
    { 4,
      snippet_length - 2 * Len(SnippetWord),
      snippet_length + SnippetStep - 2 * Len(SnippetWord),
      snippet_length + SnippetStep + 1 - 2 * Len(SnippetWord),
      snippet_length + 2 * SnippetStep + 10 - 2 * Len(SnippetWord) }

\* where the second occurrence is put: at a multiple of the step or at the end
SnippetPlaces(content) ==
    {pos \in 0..Len(content) : pos % SnippetStep = 0 \/ pos = Len(content)}

\* the word at the start or at the end of the run, and then nothing more or
\* the word once more
SnippetContents ==
    UNION { { InsertAt(first, second, p2) :
                 second \in {<<>>, SnippetWord}, p2 \in SnippetPlaces(first) } :
            first \in { InsertAt(Rep("x", n), SnippetWord, IF atEnd THEN n ELSE 0) :
                            n \in SnippetBases, atEnd \in BOOLEAN } }

LongName == <<"long.txt">>

SnippetCorpora == { <<Doc(LongName, content), S1, S4, S3>> : content \in SnippetContents }

\* relevant_docs = simple_search(question, documents, limit=3) and the
\* context_parts joined by a blank line (nothing is built without results)
BuildContext ==
    /\ variant = "safe" /\ sres = <<>> /\ sctx = <<>>
    /\ sres' = SafeSimpleSearch(sq, sdocs, limit)
    /\ sres' # <<>>
    /\ sdocs' = StoredAfterSearch(sdocs, sres')
    /\ sctx' = SafeContext(sres')
    /\ UNCHANGED <<sq, sold, sadd, envVars, statusVars, agentVars, callVars, initVars, appVars>>

InitSnippet ==
    /\ variant = "safe"
    /\ corpus = <<>>
    /\ apiKey = TRUE
    /\ backend = AnyBackend
    /\ callers = {}
    /\ InitAgent /\ InitCalls /\ IdleInit /\ IdleStatus /\ IdleApp /\ IdleIngest
    /\ sq \in SnippetQueries
    /\ sdocs \in SnippetCorpora
    /\ sres = <<>>
    /\ sold = [docs |-> <<>>, res |-> <<>>]
    /\ sadd = NoAddition
    /\ sctx = <<>>

NextSnippet == BuildContext

SpecSnippet == InitSnippet /\ [][NextSnippet]_vars

(***************************************************************************)
(* rag_agent_robust.ingest_documents over a data directory                 *)
(***************************************************************************)
MaxFiles == 3       \* files in the data directory

\* a file of the listing: its extension and whether building its knowledge
\* base and loading it into the vector database works
DataFiles ==
    [ext : {"pdf", "docx"}, loads : BOOLEAN] \cup {[ext |-> "txt", loads |-> FALSE]}

RECURSIVE Listings(_)
Listings(n) ==
    IF n = 0 THEN {<<>>}
    ELSE Listings(n - 1)
           \cup {Append(l, f) : l \in {m \in Listings(n - 1) : Len(m) = n - 1},
                                f \in DataFiles}

\* ingest_documents after the per-file except, with the loop given up
IngestAfterFailure_GivesUp(g) == [g EXCEPT !.at = "done", !.ret = "False"]

\* `except Exception as file_error: ... continue`
IngestAfterFailure(g) == [g EXCEPT !.i = @ + 1]

\* the head of ingest_documents: the directory checks and os.listdir, whose
\* exception the outer except turns into False
IngestStart ==
    /\ ingest.at = "call"
    /\ ingest' = IF ingest.dir # "present" \/ ingest.files = <<>>
                 THEN [ingest EXCEPT !.at = "done", !.ret = "False"]
                 ELSE [ingest EXCEPT !.at = "loop", !.i = 1]
    /\ UNCHANGED <<app, session, envVars, statusVars, agentVars, callVars, initVars, searchVars>>

\* one iteration of `for filename in files`
IngestFile ==
    /\ ingest.at = "loop" /\ ingest.i <= Len(ingest.files)
    /\ LET f == ingest.files[ingest.i]
       IN  ingest' =
             IF f.ext \notin {"pdf", "docx"} THEN [ingest EXCEPT !.i = @ + 1]
             ELSE IF f.loads
             THEN [ingest EXCEPT !.i = @ + 1, !.tried = Append(@, ingest.i), !.ok = @ + 1]
             ELSE IngestAfterFailure([ingest EXCEPT !.tried = Append(@, ingest.i)])
    /\ UNCHANGED <<app, session, envVars, statusVars, agentVars, callVars, initVars, searchVars>>

\* `if successful_ingestions > 0: return True else: return False`
IngestReturn ==
    /\ ingest.at = "loop" /\ ingest.i > Len(ingest.files)
    /\ ingest' = [ingest EXCEPT !.at = "done",
                                 !.ret = IF ingest.ok > 0 THEN "True" ELSE "False"]
    /\ UNCHANGED <<app, session, envVars, statusVars, agentVars, callVars, initVars, searchVars>>

InitIngest ==
    /\ variant = "robust"
    /\ corpus = <<>>
    /\ apiKey = TRUE
    /\ backend = AnyBackend
    /\ callers = {}
    /\ InitAgent /\ InitCalls /\ IdleInit /\ IdleSearch /\ IdleStatus /\ IdleApp
    /\ \E dir \in {"missing", "unreadable", "present"}, files \in Listings(MaxFiles) :
          /\ dir # "present" => files = <<>>
          /\ ingest = [NoIngest EXCEPT !.dir = dir, !.files = files, !.at = "call"]

NextIngest ==
    \/ IngestStart
    \/ IngestFile
    \/ IngestReturn

SpecIngest == InitIngest /\ [][NextIngest]_vars

(***************************************************************************)
(* The Streamlit scripts app_final (over rag_agent_robust or, when that    *)
(* import fails, rag_agent_cloud), app_cloud and app_simple: the script    *)
(* runs of the sessions, one run per click or rerun                        *)
(***************************************************************************)
MaxHistory == 4     \* entries a session history may reach

AppInputs == { <<>>, <<" ", " ">>, <<" ", "a", "a", "a", " ">>, <<"b", "b", "b">> }
AppReply(question) == <<"About ">> \o question \o <<": see Settings.">>
AppFailure == <<"boom">>

Entry(role, text) == [role |-> role, text |-> text]

\* what get_answer gives the script: without an agent rag_agent_robust
\* answers with the document search and rag_agent_cloud with its error
\* text; else, as o says, it returns an answer to the question or raises
AppGetAnswer(question, agent, o) ==
    IF variant = "robust" /\ agent.state # "ready"
    THEN Content(RobustSearchDocumentsOnly(question, FALSE, "ok"))
    ELSE IF variant = "cloud" /\ agent.state # "ready"
    THEN Content(CloudExcept(InitError).ret)
    ELSE IF o = "raises" THEN Raise(AppFailure)
    ELSE Content(AppReply(question))

AppOutcomes == {"returns", "raises"}

\* a memoized value after 'Refresh System Status' had it cleared
CachedAfterRefresh_Cleared(entry, empty) == empty

\* a memoized value after 'Refresh System Status': the handler resets
\* st.session_state.initialized and nothing else
CachedAfterRefresh(entry, empty) == entry

\* the chat interface shown whatever the flag
ChatShown_Always(initialized) == TRUE

\* `if st.session_state.initialized:` around the chat interface
ChatShown(initialized) == initialized

\* error_msg = f"(cross) Error processing question: {str(e)}"
AppErrorMessage(msg) == <<"[x]", " Error processing question: ">> \o msg

\* app_final after get_answer raised, without the entry for the error
HistoryAfterRaise_Dropped(history, msg) == history

\* app_final: `except Exception as e:` appends the error as the answer
HistoryAfterRaise(history, msg) ==
    Append(history, Entry("assistant", AppErrorMessage(msg)))

\* rag_agent_robust.test_setup: the key, then the three memoized
\* initializers in turn, False at the first that is missing
RobustTestSetup(eo, vo, r) ==
    LET e == IF ~apiKey \/ embedder # "unset" THEN embedder
             ELSE IF eo THEN "ok" ELSE "none"
        v == IF ~apiKey \/ e # "ok" \/ cache # "unset" THEN cache
             ELSE IF vo THEN "ok" ELSE "none"
        a == IF ~apiKey \/ e # "ok" \/ v # "ok" \/ agentCache.state # "unset"
             THEN agentCache ELSE r
    IN  [embedder |-> e, cache |-> v, agent |-> a,
         result |-> apiKey /\ e = "ok" /\ v = "ok" /\ a.state = "ready"]

\* rag_agent_cloud.test_setup: True unless initialize_agent raises
CloudTestSetup(r) ==
    LET a == IF agentCache.state = "unset" THEN r ELSE agentCache
    IN  [embedder |-> embedder, cache |-> cache,
         agent |-> IF a.state = "ready" THEN a ELSE agentCache,
         result |-> a.state = "ready"]

\* the memoized values become c
SetCaches(c) ==
    /\ embedder' = c.embedder
    /\ cache' = c.cache
    /\ ingests' = IF cache = "unset" /\ c.cache = "ok" THEN ingests + 1 ELSE ingests
    /\ agentCache' = c.agent
    /\ agentModel' = IF agentCache.state = "unset" /\ c.agent.state = "ready"
                     THEN c.agent.models[1] ELSE agentModel

\* a new script run of session p with the widget values click and input
StartRun(s, click, input) ==
    [s EXCEPT !.at = "status", !.click = click, !.input = input, !.asked = "no"]

\* the script run is over
EndRun(s) == [s EXCEPT !.at = "idle", !.click = "none", !.input = <<>>]

\* st.rerun(): the run stops and a run without a click starts
Rerun(s) == [s EXCEPT !.at = "status", !.click = "none", !.input = <<>>]

\* app_final up to the side-bar buttons: 'Refresh System Status' resets the
\* flag, 'Clear Chat History' empties the history, both rerun
FinalClick(p, click, input) ==
    /\ app = "final" /\ p \in callers /\ session[p].at = "idle"
    /\ click = "send" => Len(session[p].history) + 2 <= MaxHistory
    /\ click # "send" => input = <<>>
    /\ session' = [session EXCEPT ![p] =
          IF click = "refresh"
          THEN Rerun([StartRun(@, click, input) EXCEPT
                         !.initialized = FALSE, !.tested = FALSE, !.asked = "refreshed"])
          ELSE IF click = "clear"
          THEN Rerun([StartRun(@, click, input) EXCEPT
                         !.history = <<>>, !.asked = "cleared"])
          ELSE StartRun(@, click, input)]
    /\ IF click = "refresh"
       THEN /\ embedder' = CachedAfterRefresh(embedder, "unset")
            /\ cache' = CachedAfterRefresh(cache, "unset")
            /\ agentCache' = CachedAfterRefresh(agentCache, Unset)
       ELSE UNCHANGED <<embedder, cache, agentCache>>
    /\ UNCHANGED <<app, ingest, envVars, callVars, searchVars, status, agentModel,
                   ingests, lock, spc, flag>>

\* app_final, the side bar: get_system_status() when VERSION is "robust"
FinalStatus(p) ==
    /\ app = "final" /\ p \in callers /\ session[p].at = "status"
    /\ session' = [session EXCEPT ![p].at = "setup"]
    /\ IF variant = "robust"
       THEN \E eo \in (IF embedder = "unset" THEN BOOLEAN ELSE {TRUE}),
               vo \in (IF cache = "unset" THEN BOOLEAN ELSE {TRUE}),
               r \in (IF agentCache.state = "unset" THEN RobustInitResults ELSE {NoAgent}) :
               RobustGetSystemStatus(p, eo, vo, r)
       ELSE UNCHANGED <<statusVars, agentVars, initVars>>
    /\ UNCHANGED <<app, ingest, envVars, callVars, searchVars>>

\* app_final, `if not st.session_state.initialized:` with test_setup(), and
\* the test of the flag before the chat interface
FinalSetup(p) ==
    /\ app = "final" /\ p \in callers /\ session[p].at = "setup"
    /\ IF session[p].initialized
       THEN /\ session' = [session EXCEPT ![p].at = "chat"]
            /\ UNCHANGED <<embedder, agentVars, cache, ingests>>
       ELSE \E eo \in (IF embedder = "unset" THEN BOOLEAN ELSE {TRUE}),
               vo \in (IF cache = "unset" THEN BOOLEAN ELSE {TRUE}),
               r \in (IF agentCache.state # "unset" THEN {NoAgent}
                      ELSE IF variant = "robust" THEN RobustInitResults
                      ELSE CloudInitResults) :
            LET t == IF variant = "robust" THEN RobustTestSetup(eo, vo, r)
                     ELSE CloudTestSetup(r)
            IN  /\ SetCaches(t)
                /\ session' = [session EXCEPT ![p] =
                      IF t.result
                      THEN Rerun([@ EXCEPT !.initialized = TRUE, !.tested = TRUE])
                      ELSE IF ChatShown(FALSE) THEN [@ EXCEPT !.at = "chat"]
                      ELSE EndRun(@)]
    /\ UNCHANGED <<app, ingest, envVars, callVars, searchVars, status, lock, spc, flag>>

\* app_final, the chat interface: `if send_clicked and user_input.strip():`
\* the user entry, get_answer, the answer or the error entry, st.rerun()
FinalChat(p, o) ==
    /\ app = "final" /\ p \in callers /\ session[p].at = "chat"
    /\ IF session[p].click = "send" /\ Strip(session[p].input) # <<>>
       THEN \E eo \in (IF agentCache.state = "unset" THEN BOOLEAN ELSE {TRUE}),
               vo \in (IF agentCache.state = "unset" THEN BOOLEAN ELSE {TRUE}),
               r \in (IF agentCache.state # "unset" THEN {NoAgent}
                      ELSE IF variant = "robust" THEN RobustInitResults
                      ELSE CloudInitResults) :
            LET question == Strip(session[p].input)
                i == IF variant = "robust" THEN RobustInitializeAgent(r, eo, vo)
                     ELSE CloudTestSetup(r)
                c == IF agentCache.state = "unset" THEN i
                     ELSE [embedder |-> embedder, cache |-> cache, agent |-> agentCache]
                a == AppGetAnswer(question, c.agent, o)
                asked == Append(session[p].history, Entry("user", question))
            IN  /\ SetCaches(c)
                /\ session' = [session EXCEPT ![p] =
                      Rerun([@ EXCEPT
                         !.asked = IF session[p].initialized THEN "shown" ELSE "hidden",
                         !.history = IF a.kind = "raise"
                                     THEN HistoryAfterRaise(asked, a.text)
                                     ELSE Append(asked, Entry("assistant", a.text))])]
       ELSE /\ session' = [session EXCEPT ![p] =
                  EndRun([@ EXCEPT !.asked = IF session[p].click = "send"
                                             THEN "blank" ELSE @])]
            /\ UNCHANGED <<embedder, agentVars, cache, ingests>>
    /\ UNCHANGED <<app, ingest, envVars, callVars, searchVars, status, lock, spc, flag>>

\* one script run of app_cloud: test_setup() while the flag is unset (the
\* script stops when it fails), Send, and 'Clear Chat History'
CloudAppRun(p, click, input, r, o) ==
    /\ app = "cloud" /\ p \in callers
    /\ click = "send" => Len(session[p].history) + 2 <= MaxHistory
    /\ click # "send" => input = <<>>
    /\ LET t == IF session[p].initialized
                THEN [embedder |-> embedder, cache |-> cache, agent |-> agentCache,
                      result |-> TRUE]
                ELSE CloudTestSetup(r)
           a == AppGetAnswer(Strip(input), t.agent, o)
       IN  /\ SetCaches(t)
           /\ session' = [session EXCEPT ![p] =
                 IF ~t.result THEN @
                 ELSE LET s == [@ EXCEPT !.initialized = TRUE, !.tested = TRUE,
                                                  !.asked = "no"]
                      IN  IF click = "send" /\ Strip(input) # <<>>
                          THEN IF a.kind = "raise" THEN [s EXCEPT !.asked = "shown"]
                               ELSE [s EXCEPT !.asked = "shown",
                                              !.history =
                                                 @ \o <<Entry("You", Strip(input)),
                                                        Entry("Bot", a.text)>>]
                          ELSE IF click = "clear"
                          THEN [s EXCEPT !.history = <<>>, !.asked = "cleared"]
                          ELSE IF click = "send" THEN [s EXCEPT !.asked = "blank"]
                          ELSE s]
    /\ UNCHANGED <<app, ingest, envVars, callVars, searchVars, status, lock, spc, flag>>

\* one script run of app_simple: Send, and 'Clear Chat'
SimpleAppRun(p, click, input, o) ==
    /\ app = "simple" /\ p \in callers
    /\ click = "send" => Len(session[p].history) + 2 <= MaxHistory
    /\ click # "send" => input = <<>>
    /\ LET a == AppGetAnswer(Strip(input), agentCache, o)
       IN  session' = [session EXCEPT ![p] =
              IF click = "send" /\ Strip(input) # <<>>
              THEN IF a.kind = "raise" THEN [@ EXCEPT !.asked = "shown"]
                   ELSE [@ EXCEPT !.asked = "shown",
                                  !.history =
                                     @ \o <<Entry("You", Strip(input)), Entry("Bot", a.text)>>]
              ELSE IF click = "clear" THEN [@ EXCEPT !.history = <<>>, !.asked = "cleared"]
              ELSE IF click = "send" THEN [@ EXCEPT !.asked = "blank"]
              ELSE [@ EXCEPT !.asked = "no"]]
    /\ UNCHANGED <<app, ingest, envVars, callVars, searchVars, statusVars, agentVars,
                   initVars>>

\* GOOGLE_API_KEY gets into the environment or the secrets of the process
KeyArrives ==
    /\ app # "none" /\ ~apiKey
    /\ apiKey' = TRUE
    /\ UNCHANGED <<variant, corpus, backend, callers, agentVars, callVars, initVars,
                   searchVars, statusVars, appVars>>

InitApp ==
    /\ app \in {"final", "cloud", "simple"}
    /\ variant \in (IF app = "final" THEN {"robust", "cloud"}
                    ELSE IF app = "cloud" THEN {"cloud"} ELSE {"safe"})
    /\ corpus = <<DocA>>
    /\ apiKey \in (IF variant = "robust" THEN BOOLEAN ELSE {TRUE})
    /\ backend = AnyBackend
    /\ callers = IF app = "final" THEN {1, 2} ELSE {1}
    /\ InitAgent /\ InitCalls /\ IdleInit /\ IdleSearch /\ IdleStatus /\ IdleIngest
    /\ session = [p \in Callers |-> NoSession]

Clicks == {"none", "refresh", "clear", "send"}

NextApp ==
    \/ \E p \in Callers, click \in Clicks, input \in AppInputs : FinalClick(p, click, input)
    \/ \E p \in Callers : FinalStatus(p)
    \/ \E p \in Callers : FinalSetup(p)
    \/ \E p \in Callers, o \in AppOutcomes : FinalChat(p, o)
    \/ \E p \in Callers, click \in Clicks \ {"refresh"}, input \in AppInputs,
          r \in CloudInitResults, o \in AppOutcomes : CloudAppRun(p, click, input, r, o)
    \/ \E p \in Callers, click \in Clicks \ {"refresh"}, input \in AppInputs,
          o \in AppOutcomes : SimpleAppRun(p, click, input, o)
    \/ KeyArrives

SpecApp == InitApp /\ [][NextApp]_vars

(***************************************************************************)
(* Properties                                                              *)
(***************************************************************************)
Gens(events) == SelectSeq(events, LAMBDA e : e.type = "gen")
Timeline(events) == SelectSeq(events, LAMBDA e : e.type \in {"gen", "sleep"})
Searches(events) == SelectSeq(events, LAMBDA e : e.type = "search")
IsDone(p) == p \in callers /\ pc[p] = "done"
IsQuotaRaise(e, markers) == e.out.kind = "raise" /\ IsQuotaError(e.out.text, markers)
IsText(e) == e.out.kind = "content" /\ e.out.text # <<>>
\* the 0-based offset of the first occurrence of s in t
PosOf(t, s) ==
    CHOOSE i \in 0..Len(t) : OccursAt(s, t, i) /\ \A j \in 0..Len(t) : OccursAt(s, t, j) => i <= j

\* C1: in rag_agent_robust, rag_agent_safe and rag_agent_cloud every finished
\* get_answer call with a non-blank question has returned a string of at
\* least one character, and no exception has left the call, whatever the
\* initialization, the search and the generation attempts did.
C1_AnswerIsNonEmptyString ==
    \A p \in Callers :
        (IsDone(p) /\ variant \in {"robust", "safe", "cloud"} /\ Strip(q[p]) # <<>>)
            => /\ Len(ret[p]) > 0
               /\ ret[p] # Pending
               /\ ~IsEscaped(ret[p])

\* a robust call whose three attempts raised other errors and whose last
\* resort search failed too
C1_Witness ==
    \E p \in Callers :
        /\ IsDone(p) /\ variant = "robust" /\ Strip(q[p]) # <<>>
        /\ Len(Gens(log[p])) = max_retries + 1
        /\ StartsWith(ret[p], <<"[x]", " AI system error: ">>)
        /\ Contains(ret[p], <<" Search failed: ">>)

\* the block that lists document d as result number i
C2_Block(i, d) ==
    <<" Result ">> \o Str(i) \o <<":**", "\n">> \o Truncate(d.content, RobustMaxContent)

\* C2: when every generation attempt of a rag_agent_robust.get_answer call
\* raised a quota error, the answer is the document-fallback notice followed
\* by what search_documents_only returns for the question, and when the
\* search found documents that text lists the first min(3, n) documents of
\* the search, in its order, and no fourth one.
C2_QuotaOnAllTiersListsTopResults ==
    \A p \in Callers :
        (/\ IsDone(p) /\ variant = "robust" /\ Gens(log[p]) # <<>>
         /\ \A i \in DOMAIN Gens(log[p]) : IsQuotaRaise(Gens(log[p])[i], RobustQuotaErrors))
            => LET s == Searches(log[p])[1].model
                   k == Min(limit, Len(corpus))
               IN  /\ Len(Searches(log[p])) = 1
                   /\ ret[p] = RobustBusyNotice \o RobustSearchDocumentsOnly(q[p], TRUE, s)
                   /\ (s = "ok" /\ corpus # <<>>) =>
                        /\ \A i \in 1..k : Contains(ret[p], C2_Block(i, corpus[i]))
                        /\ \A i \in 1..(k - 1) :
                             PosOf(ret[p], C2_Block(i, corpus[i]))
                               < PosOf(ret[p], C2_Block(i + 1, corpus[i + 1]))
                        /\ ~Contains(ret[p], <<" Result ">> \o Str(limit + 1))

\* both tiers raised a quota error and the search returned three of the four
\* documents of the corpus
C2_Witness ==
    \E p \in Callers :
        /\ IsDone(p) /\ variant = "robust" /\ Len(corpus) > limit
        /\ Len(Gens(log[p])) = 2
        /\ \A i \in DOMAIN Gens(log[p]) : IsQuotaRaise(Gens(log[p])[i], RobustQuotaErrors)
        /\ Gens(log[p])[1].model = Models[1] /\ Gens(log[p])[2].model = Models[2]
        /\ Contains(ret[p], C2_Block(limit, corpus[limit]))

C3_Markers == IF variant = "robust" THEN RobustQuotaErrors ELSE CloudQuotaErrors

C3_Case(p) ==
    /\ IsDone(p) /\ variant \in {"robust", "cloud"}
    /\ agentCache.models = Models
    /\ Len(Gens(log[p])) >= 2
    /\ Gens(log[p])[1].model = Models[1]
    /\ IsQuotaRaise(Gens(log[p])[1], C3_Markers)
    /\ Gens(log[p])[2].model = Models[2]
    /\ IsText(Gens(log[p])[2])

\* C3: with the two tiers configured, when the generation call on the first
\* tier raised a quota error and the call on the second tier returned the
\* text t, get_answer (robust, cloud) returned t, and the call made exactly
\* two generation calls with exactly one wait, of 2 time units, between them.
C3_SecondTierAnswersAfterOneBackoff ==
    \A p \in Callers :
        C3_Case(p) =>
            /\ ret[p] = Gens(log[p])[2].out.text
            /\ Timeline(log[p]) =
                 <<Gens(log[p])[1], SleepEv(2), Gens(log[p])[2]>>

C3_Witness == \E p \in Callers : C3_Case(p) /\ variant = "cloud"

\* C4: when the first generation attempt of a get_answer call (robust, cloud)
\* returned the non-empty text t, the call returned t with its leading and
\* trailing whitespace removed.
C4_FirstAttemptTextIsReturnedTrimmed ==
    \A p \in Callers :
        (/\ IsDone(p) /\ variant \in {"robust", "cloud"}
         /\ Gens(log[p]) # <<>> /\ IsText(Gens(log[p])[1]))
            => ret[p] = Strip(Gens(log[p])[1].out.text)

\* C5: a finished get_answer call (robust, safe, cloud, fallback) whose
\* question was empty or only whitespace returned the validation message
\* and did nothing before: no initialization, no load, no search, no
\* generation.
C5_BlankQuestionIsRejectedFirst ==
    \A p \in Callers :
        (/\ IsDone(p) /\ variant \in {"robust", "safe", "cloud", "fallback"}
         /\ Strip(q[p]) = <<>>)
            => /\ ret[p] = ValidationMessage
               /\ log[p] = <<>>

\* a whitespace-only question was rejected by rag_agent_cloud
C5_Witness ==
    \E p \in Callers :
        /\ IsDone(p) /\ variant = "cloud" /\ q[p] # <<>> /\ Strip(q[p]) = <<>>
        /\ ret[p] = ValidationMessage

C6_NoMatch ==
    \/ corpus = <<>>
    \/ variant = "safe" /\ \A i \in DOMAIN corpus : SafeScore(q[1], corpus[i]) = 0
    \/ variant = "fallback" /\ \A i \in DOMAIN corpus : FallbackScore(q[1], corpus[i]) = 0

\* C6: in rag_agent_safe and rag_agent_fallback a finished call with a
\* non-blank question, the corpus being empty or no document scoring above 0,
\* returned the no-documents message and made no generation call.
C6_NoDocumentsMeansNoGeneration ==
    (IsDone(1) /\ variant \in {"safe", "fallback"} /\ Strip(q[1]) # <<>> /\ C6_NoMatch)
        => /\ Gens(log[1]) = <<>>
           /\ StartsWith(ret[1], <<"[x]">>)
           /\ IF corpus = <<>>
              THEN ret[1] = (IF variant = "safe" THEN SafeNoDocs ELSE FallbackNoDocs)
              ELSE ret[1] = <<"[x]", " No relevant information found for: '">> \o q[1] \o <<"'">>

\* a question that matches no document of a non-empty corpus
C6_Witness ==
    /\ IsDone(1) /\ variant = "safe" /\ Strip(q[1]) # <<>> /\ corpus # <<>>
    /\ \A i \in DOMAIN corpus : SafeScore(q[1], corpus[i]) = 0

C7_Case(p) ==
    /\ IsDone(p) /\ variant \in {"robust", "cloud"}
    /\ prev[p].done /\ prev[p].q = q[p]
    /\ prev[p].gens > 0 /\ Gens(log[p]) # <<>>

\* C7: with an unchanged corpus and a backend whose outcome is a fixed
\* function of the model, two get_answer calls in a row with the same
\* question that both ran on the cached agent (robust, cloud) returned the
\* same string.
C7_SameQuestionSameAnswer ==
    \A p \in Callers : C7_Case(p) => ret[p] = prev[p].ret

\* the second of two such calls started on the model the first one left
\* on the agent, the second tier
C7_Witness ==
    \E p \in Callers :
        /\ C7_Case(p) /\ variant = "robust"
        /\ Gens(log[p])[1].model = Models[2] /\ Gens(log[p])[1].sel = Models[1]
        /\ backend.gen[Models[1]] # backend.gen[Models[2]]

\* C8: of callers running get_answer at the same time on the one agent
\* (rag_agent, rag_agent_robust), every generation call of a call ran on the
\* model that this call had selected for the attempt.
C8_GenerationRunsOnTheCallsOwnModel ==
    \A p \in Callers :
        \A i \in DOMAIN Gens(log[p]) : Gens(log[p])[i].model = Gens(log[p])[i].sel

\* C9: over all sessions of a process and all interleavings of their calls
\* of initialize_vector_db (robust, cloud), ingest_documents has been
\* executed at most once.
C9_IngestionAtMostOnce == ingests <= 1

\* place of the document named fname in a result list, 0 when not listed
RankOf(res, fname) ==
    LET at == {i \in DOMAIN res : res[i].filename = fname}
    IN IF at = {} THEN 0 ELSE CHOOSE i \in at : TRUE

\* in res, the document named a is listed and b is not listed before it
Ahead(res, a, b) ==
    /\ RankOf(res, a) # 0
    /\ RankOf(res, b) = 0 \/ RankOf(res, a) < RankOf(res, b)

ScoreIn(documents, d) == SafeScore(sq, documents[d])

\* the addition kept the score of the changed document and its place
\* before every unchanged document it was ahead of
NotLowered ==
    /\ ScoreIn(sdocs, sadd.doc) >= ScoreIn(sold.docs, sadd.doc)
    /\ \A u \in DOMAIN sdocs :
          (u # sadd.doc /\ Ahead(sold.res, sdocs[sadd.doc].filename, sdocs[u].filename))
             => Ahead(sres, sdocs[sadd.doc].filename, sdocs[u].filename)

\* the word went in at a place that is not inside an occurrence of the
\* query or of a query word in the lower-cased content
SplitsNothing ==
    LET content == Lower(sold.docs[sadd.doc].content)
        pats == {Lower(sq)} \cup {QueryWords(sq)[w] : w \in DOMAIN QueryWords(sq)}
    IN \A pat \in pats : \A i \in 0..Len(content) :
          OccursAt(pat, content, i) => (sadd.pos <= i \/ sadd.pos >= i + Len(pat))

\* C10 as stated: one more occurrence of a query word anywhere in the
\* content of one document never lowers its score nor moves it behind an
\* unchanged document it was ahead of.
C10_AnywhereNeverLowers == (variant = "safe" /\ sadd.doc # 0) => NotLowered

\* C10: one more occurrence of a query word, put into the content of one
\* document at a place that splits no occurrence of the query or of a query
\* word, never lowers the score of the document nor moves it behind an
\* unchanged document it was ahead of (rag_agent_safe.simple_search).
C10_AdditionBesideOccurrencesNeverLowers ==
    (variant = "safe" /\ sadd.doc # 0 /\ SplitsNothing) => NotLowered

\* such an addition moved the document ahead of one that had been ahead of it
C10_Witness ==
    /\ variant = "safe" /\ sadd.doc # 0 /\ SplitsNothing
    /\ \E u \in DOMAIN sdocs :
          /\ u # sadd.doc
          /\ Ahead(sold.res, sdocs[u].filename, sdocs[sadd.doc].filename)
          /\ Ahead(sres, sdocs[sadd.doc].filename, sdocs[u].filename)

\* every session has the vector database, at least one of them from the
\* cache without running the function, and the documents were ingested
C9_Witness ==
    /\ ingests = 1 /\ cache = "ok"
    /\ \A p \in Callers : spc[p] = "got"
    /\ \E p \in Callers : ~flag[p]
    /\ variant = "cloud"

(***************************************************************************)
(* The score and the order of simple_search                                *)
(***************************************************************************)
\* the tokens of the lower-cased query as pairs <<first, last>> of positions:
\* the maximal runs without white space, those longer than 2 characters
TokenSpans(query) ==
    {sp \in (1..Len(query)) \X (1..Len(query)) :
        /\ sp[1] <= sp[2]
        /\ \A k \in sp[1]..sp[2] : ~IsSpace(query[k])
        /\ sp[1] = 1 \/ IsSpace(query[sp[1] - 1])
        /\ sp[2] = Len(query) \/ IsSpace(query[sp[2] + 1])
        /\ sp[2] - sp[1] + 1 > 2}

TokenAt(query, sp) == Lower(SubSeq(query, sp[1], sp[2]))

\* the number of occurrences of word in text, no two of them overlapping:
\* the largest number of places of word that are pairwise apart
Occurrences(text, word) ==
    LET places == {i \in 0..Len(text) : OccursAt(word, text, i)}
        apart == {S \in SUBSET places :
                     \A i \in S, j \in S : i < j => i + Len(word) <= j}
    IN  CHOOSE n \in 0..Len(text) :
            /\ \E S \in apart : Cardinality(S) = n
            /\ \A S \in apart : Cardinality(S) <= n

\* the score as the claim states it
StatedScore(query, doc) ==
    LET spans == TokenSpans(query)
        content == Lower(doc.content)
    IN  (IF \E i \in 0..Len(content) : OccursAt(Lower(query), content, i) THEN 50 ELSE 0)
          + 5 * Cardinality({<<sp, k>> \in spans \X (1..Len(content)) :
                                k <= Occurrences(content, TokenAt(query, sp))})
          + 10 * Cardinality({sp \in spans :
                                \E i \in 0..Len(doc.filename) :
                                    OccursAt(TokenAt(query, sp), Lower(doc.filename), i)})

\* the place in the document list of the document named fname
PlaceOf(documents, fname) == CHOOSE i \in DOMAIN documents : documents[i].filename = fname

Listed(res) == {res[i].filename : i \in DOMAIN res}

\* C11: rag_agent_safe.simple_search gives each document the score 50 for the
\* whole lower-cased query occurring in the lower-cased content, plus 5 for
\* every occurrence of a lower-case query token longer than 2 characters, plus
\* 10 for every such token occurring in the lower-cased file name; it lists
\* no document of score 0, leaves out a document of positive score only when
\* the limit is reached, and lists by that score, highest first.
C11_ScoreIsPhrasePlusWordsPlusFilename ==
    (variant = "safe" /\ sres # <<>>) =>
        /\ \A i \in DOMAIN sres :
              /\ sres[i].score = StatedScore(sq, sdocs[PlaceOf(sdocs, sres[i].filename)])
              /\ sres[i].score # 0
        /\ \A d \in DOMAIN sdocs :
              (StatedScore(sq, sdocs[d]) > 0 /\ sdocs[d].filename \notin Listed(sres))
                  => Len(sres) = limit
        /\ \A i \in DOMAIN sres, j \in DOMAIN sres :
              i < j => sres[i].score >= sres[j].score

\* a search in which a phrase match, a repeated word and a file-name match
\* all counted, and a document of score 0 was dropped
C11_Witness ==
    /\ variant = "safe" /\ sres # <<>>
    /\ \E i \in DOMAIN sres : sres[i].score >= 50 + 2 * 5 + 10
    /\ \E d \in DOMAIN sdocs :
          StatedScore(sq, sdocs[d]) = 0 /\ sdocs[d].filename \notin Listed(sres)

\* the score simple_search of the serving module gives a document
ScoreOf(doc) ==
    IF variant = "fallback" THEN FallbackScore(sq, doc) ELSE SafeScore(sq, doc)

\* C12: the sequence simple_search returns (rag_agent_safe,
\* rag_agent_fallback) has at most limit entries, every entry has a score
\* above 0, the scores do not increase along it, entries of equal score are in
\* the order of the document list, and no document left out has a higher
\* score than a listed one.
C12_ResultIsRankedAndBounded ==
    /\ Len(sres) <= limit
    /\ \A i \in DOMAIN sres : sres[i].score > 0
    /\ \A i \in DOMAIN sres, j \in DOMAIN sres :
          i < j =>
            /\ sres[i].score >= sres[j].score
            /\ sres[i].score = sres[j].score
                 => PlaceOf(sdocs, sres[i].filename) < PlaceOf(sdocs, sres[j].filename)
    /\ \A d \in DOMAIN sdocs :
          sdocs[d].filename \notin Listed(sres)
             => \A i \in DOMAIN sres : ScoreOf(sdocs[d]) <= sres[i].score

\* a full result with two entries of equal score, a matching document left
\* out and a document of score 0 left out
C12_Witness ==
    /\ Len(sres) = limit
    /\ \E i \in DOMAIN sres, j \in DOMAIN sres : i < j /\ sres[i].score = sres[j].score
    /\ \E d \in DOMAIN sdocs :
          sdocs[d].filename \notin Listed(sres) /\ ScoreOf(sdocs[d]) > 0
    /\ \E d \in DOMAIN sdocs : ScoreOf(sdocs[d]) = 0

(***************************************************************************)
(* Answers that list documents, and calls without the key                  *)
(***************************************************************************)
\* the atoms that open a listed result, and those that say that the AI did
\* not answer
ResultMarkers == {" Result ", "**Result "}
AiNotices ==
    {RobustBusyNotice[2], RobustUnavailableNotice[2], " AI system error: ",
     SafeFallbackMsg[2], LocalHeader[2]}

ListsResults(r) == \E i \in DOMAIN r : r[i] \in ResultMarkers
NoticeBeforeResults(r) ==
    \E i \in DOMAIN r :
        /\ r[i] \in AiNotices
        /\ \A j \in DOMAIN r : r[j] \in ResultMarkers => i < j
\* the notice is the first text of the answer, after its pictograph
OpensWithNotice(r) == \E i \in 1..Min(2, Len(r)) : r[i] \in AiNotices

\* C13: in rag_agent_robust, rag_agent_safe and rag_agent every returned
\* answer that lists document-search results carries a notice that the AI
\* did not answer, and the notice stands before the first listed result.
C13_ListedResultsFollowANotice ==
    \A p \in Callers :
        (IsDone(p) /\ variant \in {"robust", "safe", "local"} /\ ListsResults(ret[p]))
            => NoticeBeforeResults(ret[p])

\* a rag_agent_safe call whose three models failed and that lists documents
C13_Witness ==
    \E p \in Callers :
        /\ IsDone(p) /\ variant = "safe" /\ ListsResults(ret[p])
        /\ Len(Gens(log[p])) = Len(models_to_try)

\* C14: in rag_agent_cloud and rag_agent_fallback every returned answer that
\* lists document-search results opens with a notice that the AI did not
\* answer.
C14_ListedResultsOpenWithANotice ==
    \A p \in Callers :
        (IsDone(p) /\ variant \in {"cloud", "fallback"} /\ ListsResults(ret[p]))
            => OpensWithNotice(ret[p])

\* search_documents_only was called by the finished call of p
SearchedOnly(p) ==
    \/ variant \in {"robust", "local"} /\ Searches(log[p]) # <<>>
    \/ variant = "robust" /\ log[p] = <<InitEv, InitEv>>
    \/ variant = "safe" /\ Len(SelectSeq(log[p], LAMBDA e : e.type = "load")) = 2

\* C15: search_documents_only of rag_agent, rag_agent_robust and
\* rag_agent_safe has returned a string in every finished call that reached
\* it, whether the store gave results, gave none, was missing, raised, or
\* gave results the listing could not read: no exception left it.
C15_SearchOnlyReturnsAString ==
    \A p \in Callers :
        (IsDone(p) /\ SearchedOnly(p))
            => /\ \A i \in DOMAIN ret[p] : ret[p][i] # "<exception>"
               /\ ret[p] # Pending
               /\ Len(ret[p]) > 0

\* a rag_agent_robust call whose search gave results the listing could not
\* read, and that returned the search-failed text
C15_Witness ==
    \E p \in Callers :
        /\ IsDone(p) /\ variant = "robust"
        /\ \E i \in DOMAIN Searches(log[p]) : Searches(log[p])[i].model = "format"
        /\ Contains(ret[p], <<" Search failed: ">> \o FormatError)

\* C16: while no GOOGLE_API_KEY is available, rag_agent, rag_agent_robust and
\* rag_agent_safe hold no agent, no call is inside the generation loop and no
\* call has sent a generation request.
C16_NoKeyNoAgentNoGeneration ==
    (variant \in {"local", "robust", "safe"} /\ ~apiKey)
        => /\ agentCache.state # "ready"
           /\ \A p \in Callers : Gens(log[p]) = <<>> /\ pc[p] \notin {"select", "run"}

\* without the key, a rag_agent_robust call with a question was answered
\* from the missing knowledge base, and a rag_agent_safe call found documents
C16_Witness ==
    /\ ~apiKey
    /\ \E p \in Callers :
          /\ IsDone(p) /\ Strip(q[p]) # <<>>
          /\ \/ variant = "robust" /\ ret[p] = RobustKbUnavailable
             \/ variant = "safe" /\ ListsResults(ret[p])

\* what rag_agent_safe.get_ai_response returns when generate_content raised a
\* quota error on every model of models_to_try
SafeAllQuota ==
    IF \A i \in 1..(Len(models_to_try) - 1) :
           SafeTry(i, Raise(<<"quota">>)).next = "continue"
    THEN SafeTry(Len(models_to_try), Raise(<<"quota">>)).ret
    ELSE Pending

\* C17: the string rag_agent_safe.get_answer returns without the key differs
\* from the string it returns, for the same question and documents, when
\* every model fails with a quota error.
C17_MissingKeyDiffersFromQuota ==
    \A p \in Callers :
        (/\ IsDone(p) /\ variant = "safe" /\ ~apiKey
         /\ Strip(q[p]) # <<>>
         /\ SafeSimpleSearch(q[p], corpus, limit) # <<>>)
            => ret[p] # SafeAnswer(SafeAllQuota, q[p], corpus)

\* C19: every finished rag_agent.get_answer call with a non-blank question
\* has returned a string of at least one character and no exception left it,
\* whatever agent.run gave on each model.
C19_LocalAnswerIsNonEmptyString ==
    \A p \in Callers :
        (IsDone(p) /\ variant = "local" /\ Strip(q[p]) # <<>>)
            => /\ Len(ret[p]) > 0
               /\ ret[p] # Pending
               /\ ~IsEscaped(ret[p])

\* C20: a rag_agent.get_answer call with a question of white space only
\* calls neither agent.run nor the search of the vector store, and returns
\* the validation message.
C20_LocalRejectsWhitespaceQuestion ==
    \A p \in Callers :
        (/\ variant = "local" /\ p \in callers /\ pc[p] # "idle"
         /\ q[p] # <<>> /\ Strip(q[p]) = <<>>)
            => /\ Gens(log[p]) = <<>>
               /\ Searches(log[p]) = <<>>
               /\ pc[p] = "done" => ret[p] = ValidationMessage

\* C18: every status value get_system_status returned (rag_agent_robust,
\* rag_agent_safe, rag_agent_fallback) has a mode field, and its value is one
\* of semantic, keyword_only, unavailable.
C18_StatusModeIsOneOfThree ==
    \A p \in Callers :
        status[p] # NoStatus
            => /\ "mode" \in DOMAIN status[p]
               /\ status[p].mode \in {"semantic", "keyword_only", "unavailable"}

(***************************************************************************)
(* The generation loop of rag_agent_robust and rag_agent_cloud             *)
(***************************************************************************)
\* C21: with no document in the vector store, a get_answer call of
\* rag_agent_robust or rag_agent_cloud with a non-blank question does not
\* call agent.run, and it returns the no-documents message.
C21_EmptyCorpusAnswersWithoutGeneration ==
    \A p \in Callers :
        (/\ p \in callers /\ variant \in {"robust", "cloud"} /\ corpus = <<>>
         /\ pc[p] # "idle" /\ Strip(q[p]) # <<>>)
            => /\ Gens(log[p]) = <<>>
               /\ pc[p] = "done" => ret[p] \in {RobustNoDocs(q[p]), CloudNoDocs}

\* the tier of attempt k (counted from 0) of a call on an agent with the
\* model tiers ms
TierOf(ms, k) == IF k < Len(ms) - 1 THEN ms[k + 1] ELSE ms[Len(ms)]

\* C22: in every get_answer call on the cached agent (rag_agent_robust,
\* rag_agent_cloud), the first call or a later one, the generation of attempt
\* k ran on tier min(k, number of tiers - 1), and that is the model the call
\* selected and reported for the attempt.
C22_AttemptRunsOnItsTier ==
    \A p \in Callers :
        (p \in callers /\ variant \in {"robust", "cloud"})
            => \A i \in DOMAIN Gens(log[p]) :
                  /\ Gens(log[p])[i].model = TierOf(agentCache.models, i - 1)
                  /\ Gens(log[p])[i].sel = Gens(log[p])[i].model

\* C23: in every get_answer call of rag_agent_robust and rag_agent_cloud, the
\* first on the cached agent or a later one, a model whose generation call
\* raised a quota error is not called again in that call, and a quota error
\* of the last tier is the last thing the generation loop did: no wait and no
\* generation call follows it.
C23_QuotaTierIsNotCalledAgain ==
    \A p \in Callers :
        (p \in callers /\ variant \in {"robust", "cloud"})
            => LET g == Gens(log[p])
                   t == Timeline(log[p])
                   ms == agentCache.models
               IN  \A i \in DOMAIN g :
                      IsQuotaRaise(g[i], C3_Markers)
                         => /\ \A j \in DOMAIN g : j > i => g[j].model # g[i].model
                            /\ g[i].model = ms[Len(ms)]
                                 => (i = Len(g) /\ t[Len(t)] = g[i])

\* the generation call of e returned nothing to answer with
IsEmptyReply(e) == e.out.kind = "none" \/ (e.out.kind = "content" /\ e.out.text = <<>>)

\* the answer of the finished call of p holds what search_documents_only
\* returned, given the outcome s of the search of the store
HoldsRobustSearch(p, s) == Contains(ret[p], RobustSearchDocumentsOnly(q[p], TRUE, s))

C24_Case(p) ==
    /\ IsDone(p) /\ variant = "robust"
    /\ Len(Gens(log[p])) = max_retries + 1
    /\ \A i \in DOMAIN Gens(log[p]) :
          \/ IsEmptyReply(Gens(log[p])[i])
          \/ /\ Gens(log[p])[i].out.kind = "raise"
             /\ ~IsQuotaRaise(Gens(log[p])[i], RobustQuotaErrors)

\* C24: when the three attempts of a rag_agent_robust.get_answer call each
\* raised an error that is no quota error or returned an empty response, the
\* call searched the documents once and its answer holds what
\* search_documents_only returned for the question, be it the listing, the
\* no-documents text or the search-failed text.
C24_ExhaustedAttemptsGiveTheDocumentSearch ==
    \A p \in Callers :
        C24_Case(p)
            => /\ Len(Searches(log[p])) = 1
               /\ HoldsRobustSearch(p, Searches(log[p])[1].model)

\* the third attempt raised an error that is no quota error, and the answer
\* lists documents after the text of the error
C24_Witness ==
    \E p \in Callers :
        /\ C24_Case(p)
        /\ Gens(log[p])[max_retries + 1].out.kind = "raise"
        /\ IsEmptyReply(Gens(log[p])[1])
        /\ ListsResults(ret[p])

\* C25: when the last permitted attempt of a rag_agent_cloud.get_answer call
\* raised an error that is no quota error, the call searched the documents
\* and its answer holds what search_documents_only returned.
C25_CloudLastErrorGivesTheDocumentSearch ==
    \A p \in Callers :
        (/\ IsDone(p) /\ variant = "cloud"
         /\ Len(Gens(log[p])) = max_retries + 1
         /\ Gens(log[p])[max_retries + 1].out.kind = "raise"
         /\ ~IsQuotaRaise(Gens(log[p])[max_retries + 1], CloudQuotaErrors))
            => /\ Searches(log[p]) # <<>>
               /\ \E s \in SearchOutcomes :
                     Contains(ret[p], CloudSearchDocumentsOnly(q[p], s))

\* the markers of a quota error as the specification lists them
StatedQuotaMarkers ==
    {<<"quota">>, <<"rate limit">>, <<"429">>, <<"resource_exhausted">>,
     <<"too many requests">>}

IsStatedQuota(e) ==
    /\ e.type = "gen" /\ e.out.kind = "raise"
    /\ \E k \in StatedQuotaMarkers : Contains(Lower(e.out.text), k)

\* C26: a generation error whose lower-cased message holds quota, rate limit,
\* 429, resource_exhausted or too many requests takes the quota branch of
\* rag_agent_robust.get_answer, rag_agent_cloud.get_answer and
\* rag_agent_safe.get_ai_response: the wait of 2 time units or the document
\* search follows it at once (robust, cloud), on the last model the busy
\* string is returned (safe), and the finished call's answer does not hold
\* the message of the error.
C26_QuotaMarkersTakeTheQuotaBranch ==
    \A p \in Callers :
        (p \in callers /\ variant \in {"robust", "cloud", "safe"})
            => \A i \in DOMAIN log[p] :
                  IsStatedQuota(log[p][i])
                     => /\ pc[p] = "done" => ~Contains(ret[p], log[p][i].out.text)
                        /\ variant \in {"robust", "cloud"}
                             => /\ i < Len(log[p])
                                /\ log[p][i + 1] \in {SleepEv(2), InitEv}
                        /\ (variant = "safe" /\ log[p][i].model = "gemini-pro")
                             => /\ i < Len(log[p])
                                /\ log[p][i + 1] = AiEv(SafeBusy)

\* the waits after a quota error in a sequence of events
QuotaWaits(events) == SelectSeq(events, LAMBDA e : e.type = "sleep" /\ e.secs = 2)

\* C27: a get_answer call of rag_agent_robust or rag_agent_cloud never makes
\* more than max_retries + 1 = 3 generation calls nor more quota waits than
\* there are model tiers less one, and every call that entered the loop
\* comes to its end, whatever the generation calls give.
C27_CallEndsWithinItsAttempts ==
    /\ [](\A p \in Callers :
            /\ Len(Gens(log[p])) <= 3
            /\ \/ QuotaWaits(log[p]) = <<>>
               \/ Len(QuotaWaits(log[p])) + 1 <= Len(agentCache.models))
    /\ \A p \in Callers : (pc[p] \in {"select", "run"}) ~> (pc[p] = "done")

\* a finished call that made three generation calls and waited once
C27_Witness ==
    \E p \in Callers :
        /\ IsDone(p)
        /\ Len(Gens(log[p])) = 3
        /\ Len(QuotaWaits(log[p])) = 1

(***************************************************************************)
(* Initialization failures, and answers that are generated text            *)
(***************************************************************************)
\* C28: when the embedder or the vector database of rag_agent_robust failed
\* to initialize although the key is there, a finished get_answer call with
\* a non-blank question has an answer found by a search of the documents: it
\* is not the text that the knowledge base is not available.
C28_InitFailureStillSearchesDocuments ==
    \A p \in Callers :
        (/\ IsDone(p) /\ variant = "robust" /\ apiKey
         /\ Strip(q[p]) # <<>>
         /\ embedder = "none" \/ cache = "none")
            => /\ ret[p] # RobustKbUnavailable
               /\ corpus # <<>> => ListsResults(ret[p])

\* C29: when the last generation call of a finished get_answer call of
\* rag_agent_safe or rag_agent_fallback returned a text of at least one
\* character, that text is the answer, whatever it says.
C29_GeneratedTextIsTheAnswer ==
    \A p \in Callers :
        (/\ IsDone(p) /\ variant \in {"safe", "fallback"}
         /\ Gens(log[p]) # <<>>
         /\ IsText(Gens(log[p])[Len(Gens(log[p]))]))
            => ret[p] = Gens(log[p])[Len(Gens(log[p]))].out.text

\* what get_ai_response returned in a sequence of events, if it returned
AiReturns(events) == SelectSeq(events, LAMBDA e : e.type = "ai")

\* the models of rag_agent_safe in the order of the claim
StatedOrder == <<"gemini-1.5-flash", "gemini-1.5-pro", "gemini-pro">>

C31_SearchLeavesTheDocumentsAsTheyWere ==
    [][ /\ \A d \in DOMAIN sdocs' : DOMAIN sdocs'[d] = {"filename", "content"}
        /\ IF sadd' = sadd
           THEN sdocs' = sdocs
           ELSE sdocs' = [sdocs EXCEPT ![sadd'.doc].content =
                                           InsertAt(@, sadd'.word, sadd'.pos)] ]_vars

\* a search has returned scored results in another order than the stored
\* list, leaving one document out
C31_Witness ==
    /\ sres # <<>> /\ sadd = NoAddition
    /\ Len(sres) < Len(sdocs)
    /\ sres[1].filename # sdocs[1].filename
    /\ sres[1].score > 0

\* a snippet without the ellipsis markers get_snippet puts around it
Excerpt(snippet) ==
    LET a == IF snippet # <<>> /\ Head(snippet) = Ellipsis[1] THEN 2 ELSE 1
        b == IF Len(snippet) >= a /\ snippet[Len(snippet)] = Ellipsis[1]
             THEN Len(snippet) - 1 ELSE Len(snippet)
    IN  SubSeq(snippet, a, b)

\* C32: the context rag_agent_safe.get_answer hands to generation has at
\* most 3 parts, each of them "From <filename>:" and a new line followed by
\* one contiguous piece of that document's content of at most 300
\* characters, with or without an ellipsis before and after it.
C32_ContextIsThreeExcerptsAtMost ==
    sctx # <<>> =>
        /\ Len(sres) <= 3
        /\ Cardinality({k \in DOMAIN sctx : sctx[k] = "From "}) = Len(sres)
        /\ sctx = Join(<<"\n\n">>,
                       [i \in DOMAIN sres |->
                           <<"From ">> \o sres[i].filename \o <<":", "\n">>
                             \o sres[i].snippet])
        /\ \A i \in DOMAIN sres :
              LET content == sdocs[PlaceOf(sdocs, sres[i].filename)].content
                  piece == Excerpt(sres[i].snippet)
              IN  /\ Len(piece) <= 300
                  /\ \E off \in 0..Len(content) : OccursAt(piece, content, off)

\* four documents match, the context has three parts, and the long document
\* gives a window that starts inside its content
C32_Witness ==
    /\ sctx # <<>> /\ Len(sres) = 3
    /\ \A d \in DOMAIN sdocs : SafeScore(sq, sdocs[d]) > 0
    /\ \E i \in DOMAIN sres :
          /\ sres[i].filename = LongName
          /\ Len(sdocs[1].content) > 300
          /\ Head(sres[i].snippet) = Ellipsis[1]
          /\ Len(Excerpt(sres[i].snippet)) = 300

\* the offsets the claim lets get_snippet choose from: the multiples of 50
\* at which a whole window lies inside the content
FullWindowOffsets(content) ==
    {o \in 0..Len(content) : o % 50 = 0 /\ o + 300 <= Len(content)}

\* occurrences of the query words in the window that starts at offset o
WindowHits(content, words, o) ==
    SumSeq([w \in DOMAIN words |->
               Occurrences(Slice(Lower(content), o, o + 300), words[w])])

\* the earliest of the offsets whose window has the most occurrences
BestFullWindow(content, words) ==
    IF FullWindowOffsets(content) = {} THEN 0
    ELSE CHOOSE o \in FullWindowOffsets(content) :
            \A o2 \in FullWindowOffsets(content) :
               \/ WindowHits(content, words, o) > WindowHits(content, words, o2)
               \/ WindowHits(content, words, o) = WindowHits(content, words, o2) /\ o <= o2

\* C38: the snippet of every search result is the window of the content
\* that starts at the best of all multiples of 50 at which a whole window of
\* 300 characters fits (most occurrences of the query words, earliest on
\* ties), and it contains a query word whenever one of those windows does.
C38_SnippetIsTheBestFullWindow ==
    \A i \in DOMAIN sres :
       LET content == sdocs[PlaceOf(sdocs, sres[i].filename)].content
           words == QueryWords(sq)
           o == BestFullWindow(content, words)
       IN  /\ Excerpt(sres[i].snippet) = Slice(content, o, o + 300)
           /\ (\E o2 \in FullWindowOffsets(content) : WindowHits(content, words, o2) > 0)
                 => \E w \in DOMAIN words :
                       Occurrences(Lower(sres[i].snippet), words[w]) > 0

\* the places of the .pdf and .docx files of a listing, in order
Ingestible(files) ==
    SelectSeq([i \in DOMAIN files |-> i],
              LAMBDA i : files[i].ext \in {"pdf", "docx"})

\* C37: a finished ingest_documents has returned True or False; over a
\* readable directory it has tried every .pdf and .docx file of the listing
\* once, in order, whether or not earlier ones failed, and it has returned
\* True exactly when one of them was ingested.
C37_IngestTriesEveryFile ==
    ingest.at = "done" =>
        /\ ingest.ret \in {"True", "False"}
        /\ ingest.dir = "present" => ingest.tried = Ingestible(ingest.files)
        /\ ingest.ret = "True" <=>
              /\ ingest.dir = "present"
              /\ \E i \in DOMAIN ingest.files :
                    ingest.files[i].ext \in {"pdf", "docx"} /\ ingest.files[i].loads

\* the first file failed, a later one was ingested, and the call returned True
C37_Witness ==
    /\ ingest.at = "done" /\ ingest.ret = "True"
    /\ Len(ingest.tried) >= 2
    /\ ~ingest.files[ingest.tried[1]].loads
    /\ \E i \in DOMAIN ingest.files : ingest.files[i].ext = "txt"

\* C34: in every status rag_agent_robust.get_system_status has returned,
\* agent_ready implies vector_db_ready, embedder_ready and api_key_present,
\* and vector_db_ready implies embedder_ready.
C34_StatusFlagsAreOrdered ==
    \A p \in Callers :
       "agent_ready" \in DOMAIN status[p] =>
           /\ status[p].agent_ready =>
                 /\ status[p].vector_db_ready
                 /\ status[p].embedder_ready
                 /\ status[p].api_key_present
           /\ status[p].vector_db_ready => status[p].embedder_ready

\* two sessions of app_final have been told that the agent is ready
C34_Witness ==
    /\ app = "final" /\ variant = "robust"
    /\ \A p \in callers :
          /\ "agent_ready" \in DOMAIN status[p]
          /\ status[p].agent_ready
          /\ session[p].initialized

\* a memoized initializer of rag_agent_robust holds a failure
InitFailed == embedder = "none" \/ cache = "none" \/ agentCache = NoAgent

\* what the sessions of app_final see of a failure that is memoized
FailureSeen ==
    InitFailed =>
       /\ agentCache.state # "ready"
       /\ embedder = "none" => cache # "ok"
       /\ \A p \in callers :
             /\ ~session[p].initialized /\ ~session[p].tested
             /\ session[p].asked # "shown"
             /\ "agent_ready" \in DOMAIN status[p] =>
                   /\ ~status[p].agent_ready
                   /\ status[p].embedder_ready = (embedder = "ok")
                   /\ status[p].vector_db_ready = (cache = "ok")

\* C33: once a memoized initializer of rag_agent_robust holds a failure, it
\* holds it for the rest of the process, over 'Refresh System Status' and
\* the arrival of the key; the agent never gets ready, every status says
\* so, test_setup does not return True again and no session of app_final
\* gets initialized.
C33_MemoizedFailureStays ==
    [][ (app = "final" /\ variant = "robust") =>
           /\ embedder = "none" => embedder' = "none"
           /\ cache = "none" => cache' = "none"
           /\ agentCache = NoAgent => agentCache' = NoAgent
           /\ FailureSeen' ]_vars

\* initialize_agent returned None while the key was missing; the key is
\* there now, the embedder and the vector database are ready, and a session
\* that pressed 'Refresh System Status' has run test_setup again and is not
\* initialized
C33_Witness ==
    /\ app = "final" /\ variant = "robust"
    /\ apiKey /\ agentCache = NoAgent /\ embedder = "ok" /\ cache = "ok"
    /\ \E p \in callers, p2 \in callers :
          /\ session[p].asked = "refreshed" /\ session[p].at = "idle"
          /\ ~session[p].initialized
          /\ "agent_ready" \in DOMAIN status[p]
          /\ status[p].api_key_present /\ ~status[p].agent_ready
          /\ "agent_ready" \in DOMAIN status[p2]
          /\ ~status[p2].api_key_present

UserRoles == {"user", "You"}
AnswerRoles == {"assistant", "Bot"}

\* what an answer entry for the question can hold: the text get_answer
\* returned for it and, in app_final, the error entry for what it raised
ResultsFor(question) ==
    {AppGetAnswer(question, a, "returns").text : a \in {NoAgent, Ready(Models)}}
      \cup (IF app = "final"
            THEN {AppErrorMessage(AppGetAnswer(question, Ready(Models), "raises").text)}
            ELSE {})

\* C35: in app_final, app_cloud and app_simple the history of a session has
\* even length and is a sequence of pairs, a user entry with a question and
\* then the answer entry with the result for that question, after every
\* Send (also one whose get_answer raised) and Clear; after Clear it is
\* empty.
C35_HistoryAlternates ==
    \A p \in Callers :
       LET h == session[p].history
       IN  /\ Len(h) % 2 = 0
           /\ \A k \in DOMAIN h :
                 IF k % 2 = 1
                 THEN /\ h[k].role \in UserRoles
                      /\ h[k].text # <<>> /\ h[k].text = Strip(h[k].text)
                 ELSE /\ h[k].role \in AnswerRoles
                      /\ h[k].text \in ResultsFor(h[k - 1].text)
           /\ session[p].asked = "cleared" => h = <<>>

\* app_final holds two exchanges, the first with an answer and the second
\* with the error entry of a get_answer that raised
C35_Witness ==
    /\ app = "final"
    /\ \E p \in callers :
          LET h == session[p].history
          IN  /\ Len(h) = 4
              /\ h[2].text = AppReply(h[1].text)
              /\ h[4].text # AppReply(h[3].text)
              /\ h[1].text # h[3].text

\* C36: in app_final get_answer is called only in a script run in which
\* st.session_state.initialized is set, the flag is set only when
\* test_setup has returned True in the session since the last 'Refresh
\* System Status', and a run whose Send comes with an empty or blank input
\* calls no get_answer and leaves the history as it is.
C36_ChatOnlyWhenInitialized ==
    [][ app = "final" =>
          \A p \in callers :
             /\ session'[p].asked # "hidden"
             /\ session'[p].initialized => session'[p].tested
             /\ session'[p].asked = "shown" /\ session[p].asked # "shown"
                   => session[p].initialized /\ session[p].tested
             /\ (session[p].click = "send" /\ Strip(session[p].input) = <<>>)
                   => /\ session'[p].history = session[p].history
                      /\ session'[p].asked \in {"no", "blank"} ]_vars

\* a session that was initialized, pressed Refresh, passed test_setup again
\* and got an answer, has then sent a blank input, which left the history
C36_Witness ==
    /\ app = "final"
    /\ \E p \in callers :
          /\ session[p].asked = "blank" /\ session[p].at = "idle"
          /\ session[p].initialized /\ Len(session[p].history) = 2
          /\ \E p2 \in callers : p2 # p /\ ~session[p2].initialized
                                        /\ session[p2].asked = "refreshed"

====
